---- MODULE Spec2Model ----
(***************************************************************************)
(* School Community Hub: the domain access layer (database_manager.py),    *)
(* the session state (auth_manager.py) and the views built on them         *)
(* (detail_page.py, admin_panel_page.py, calendar_page.py,                 *)
(* directory_page.py), modelled as state machines over the four store      *)
(* collections.  The external store is modelled by what the code asks of   *)
(* it: insert, select with equality filters and ordering, update and       *)
(* delete by equality filter; every request may raise, and the store       *)
(* enforces no uniqueness constraint on memberships.                       *)
(***************************************************************************)
EXTENDS Naturals, Integers, Sequences, FiniteSets, TLC

VARIABLES
    users,          \* store: users collection, id -> role ("NoRow": no row)
    memberships,    \* store: memberships collection, (user_id, organization_id) -> number of rows
    organizations,  \* store: organizations collection, id -> <<row>> (None: no row)
    events,         \* store: events collection, id -> <<row>> (None: no row)
    session,        \* st.session_state of each browser session
    pc,             \* where each session's running handler stands, with its locals
    shown,          \* what each session's browser shows since its last render
    prev,           \* the access-layer call before the last one
    last,           \* the last access-layer call: arguments, result, effect
    out,            \* the last outcome a view produced
    credentials,    \* identity provider: the ids that have an account
    cache           \* st.cache_data: the results kept for every session of the server

vars == <<users, memberships, organizations, events, session, pc, shown, prev, last, out,
          credentials, cache>>

----------------------------------------------------------------------------
(* Domains *)

UserIds == {"u1", "u2"}
OrgIds == {"o1", "o2"}
Sessions == {"s1", "s2"}
Pairs == UserIds \X OrgIds

\* The most rows the store is let hold for one (user_id, organization_id) pair.
MaxRows == 2

\* The most events the store is let hold.
MaxEvents == 3

EventIds == 1..MaxEvents
\* The start_time values drawn: two instants, so that rows can tie.
Times == {1, 2}

NoRow == "NoRow"
NoUser == "NoUser"
NoOrg == "NoOrg"

\* Python's None / an empty response.data is the empty sequence; a row is <<row>>.
None == << >>

Truthy(v) == v # None

\* st.cache_data holds, for get_calendar_events() and for get_group_data(org_id)
\* of each org_id, no entry (None) or <<the value returned>>.  `computing` is
\* the sessions whose running call of a cached function will write its result
\* into these entries.
EmptyCache == [calendar |-> None, group |-> [o \in OrgIds |-> None], computing |-> {}]

\* st.cache_data.clear(): every entry goes; a call of a cached function that is
\* running at that moment is no longer known to the cache.
ClearCache(c) == EmptyCache

----------------------------------------------------------------------------
(* database_manager.py: membership functions *)

MembershipRow(u, o, role) == [user_id |-> u, organization_id |-> o, role |-> role]

\* A status read that takes the first matching row instead of .single().
get_user_org_membership_status_FirstRow(m, u, o, raises) ==
    IF raises \/ m[<<u, o>>] = 0
    THEN None
    ELSE <<MembershipRow(u, o, "member")>>

\* select("*").eq(user_id).eq(organization_id).single(): the request raises
\* unless exactly one row matches; every exception is turned into None.
get_user_org_membership_status(m, u, o, raises) ==
    IF raises \/ m[<<u, o>>] # 1
    THEN None
    ELSE <<MembershipRow(u, o, "member")>>

\* insert({user_id, organization_id, role}): one more row, no constraint checked.
InsertMembership(m, u, o) == [m EXCEPT ![<<u, o>>] = @ + 1]

\* A delete filtered by the user only.
DeleteMemberships_ByUser(m, u, o) == [p \in Pairs |-> IF p[1] = u THEN 0 ELSE m[p]]

\* delete().eq(user_id).eq(organization_id): every matching row goes.
DeleteMemberships(m, u, o) == [m EXCEPT ![<<u, o>>] = 0]

\* join_organization as one call: the existence check, then the insert.
\* raisesCheck / raisesInsert: whether the store raises on that request.
join_organization(m, u, o, raisesCheck, raisesInsert) ==
    LET existing_membership == get_user_org_membership_status(m, u, o, raisesCheck)
    IN  IF Truthy(existing_membership)
        THEN [ret |-> FALSE, mem |-> m, inserted |-> FALSE, raised |-> FALSE]
        ELSE IF raisesInsert
             THEN [ret |-> FALSE, mem |-> m, inserted |-> FALSE, raised |-> TRUE]
             ELSE [ret |-> TRUE, mem |-> InsertMembership(m, u, o), inserted |-> TRUE,
                   raised |-> raisesCheck]

\* leave_organization that reports success without looking at response.data.
leave_organization_AlwaysTrue(m, u, o, raises) ==
    IF raises
    THEN [ret |-> FALSE, mem |-> m]
    ELSE [ret |-> TRUE, mem |-> DeleteMemberships(m, u, o)]

\* leave_organization: delete by the pair; bool(response.data) is whether rows went.
leave_organization(m, u, o, raises) ==
    IF raises
    THEN [ret |-> FALSE, mem |-> m]
    ELSE [ret |-> m[<<u, o>>] > 0, mem |-> DeleteMemberships(m, u, o)]

----------------------------------------------------------------------------
(* The access layer called directly, one call after the other *)

NoCall == [op |-> "none", user_id |-> "u1", organization_id |-> "o1",
           ret |-> FALSE, inserted |-> FALSE, before |-> 0, raised |-> FALSE]

Call(op, u, o, ret, inserted, before, raised) ==
    [op |-> op, user_id |-> u, organization_id |-> o, ret |-> ret,
     inserted |-> inserted, before |-> before, raised |-> raised]

SamePair(c, d) == c.user_id = d.user_id /\ c.organization_id = d.organization_id

JoinCall(u, o, raisesCheck, raisesInsert) ==
    LET r == join_organization(memberships, u, o, raisesCheck, raisesInsert)
    IN  /\ memberships[<<u, o>>] < MaxRows
        /\ memberships' = r.mem
        /\ prev' = last
        /\ last' = Call("join", u, o, r.ret, r.inserted, memberships[<<u, o>>], r.raised)
        /\ UNCHANGED <<cache, credentials, users, organizations, events, session, pc, shown, out>>

LeaveCall(u, o, raises) ==
    LET r == leave_organization(memberships, u, o, raises)
    IN  /\ memberships' = r.mem
        /\ prev' = last
        /\ last' = Call("leave", u, o, r.ret, FALSE, memberships[<<u, o>>], raises)
        /\ UNCHANGED <<cache, credentials, users, organizations, events, session, pc, shown, out>>

\* get_user_org_membership_status called directly: ret is whether a record came back.
StatusCall(u, o, raises) ==
    LET membership_status == get_user_org_membership_status(memberships, u, o, raises)
    IN  /\ prev' = last
        /\ last' = Call("status", u, o, Truthy(membership_status), FALSE,
                        memberships[<<u, o>>], raises)
        /\ UNCHANGED <<cache, credentials, users, memberships, organizations, events, session, pc,
                       shown, out>>

----------------------------------------------------------------------------
(* States shared by the specifications *)

Profile(u, role) == [id |-> u, role |-> role]

LoggedOut == [user |-> None, logged_in |-> FALSE, current_page |-> "home",
              selected_org_id |-> NoOrg, confirm_delete |-> {}, show_event_form |-> FALSE]

Idle == [at |-> "idle", user_id |-> NoUser, org_id |-> NoOrg]

NoOut == [view |-> "none"]

\* Two accounts exist; u1 was made admin in the store, u2 is as sign-up left it.
InitUsers == [u \in UserIds |-> IF u = "u1" THEN "admin" ELSE "student"]

ExistingUsers == {u \in UserIds : users[u] # NoRow}

InitOrganizations ==
    [o \in OrgIds |-> IF o = "o1" THEN <<[name |-> <<"A">>, category |-> "Academic"]>>
                                  ELSE <<[name |-> <<"b">>, category |-> "STEM"]>>]

InitRest ==
    /\ users = InitUsers
    /\ credentials = {u \in UserIds : users[u] # NoRow}
    /\ cache = EmptyCache
    /\ organizations = InitOrganizations
    /\ events = [i \in EventIds |-> None]
    /\ session = [s \in Sessions |-> LoggedOut]
    /\ pc = [s \in Sessions |-> Idle]
    /\ shown = [s \in Sessions |-> "none"]
    /\ out = NoOut

InitDAL ==
    /\ InitRest
    /\ memberships = [p \in Pairs |-> 0]
    /\ prev = NoCall
    /\ last = NoCall

NextDAL ==
    \/ \E u \in ExistingUsers, o \in OrgIds, raisesCheck \in BOOLEAN, raisesInsert \in BOOLEAN :
          JoinCall(u, o, raisesCheck, raisesInsert)
    \/ \E u \in ExistingUsers, o \in OrgIds, raises \in BOOLEAN :
          LeaveCall(u, o, raises)

SpecDAL == InitDAL /\ [][NextDAL]_vars

\* The membership functions with the status read among them, for one user.
NextStatus ==
    \/ \E o \in OrgIds, raisesCheck \in BOOLEAN, raisesInsert \in BOOLEAN :
          JoinCall("u1", o, raisesCheck, raisesInsert)
    \/ \E o \in OrgIds, raises \in BOOLEAN : LeaveCall("u1", o, raises)
    \/ \E o \in OrgIds, raises \in BOOLEAN : StatusCall("u1", o, raises)

SpecStatus == InitDAL /\ [][NextStatus]_vars

----------------------------------------------------------------------------
(* auth_manager.py: the session *)

NoRole == "NoRole"

is_logged_in(s) == session[s].logged_in

get_current_user(s) == session[s].user

\* user.get('role') if user else None
get_user_role(s) ==
    IF Truthy(get_current_user(s)) THEN get_current_user(s)[1].role ELSE NoRole

\* st.session_state['auth_error'] is written by sign_up, sign_in and sign_out
\* and read only by the form that has just called them (app.py, st.error); it
\* is carried in the result of the call.
NoError == "NoError"

AuthResult(ret, sess, auth_error) == [ret |-> ret, session |-> sess, auth_error |-> auth_error]

\* A sign-in that does not ask for the users row.
sign_in_NoRowCheck(s, u, accepted, raises) ==
    IF accepted /\ u \in credentials /\ ~raises
    THEN AuthResult(TRUE, [session[s] EXCEPT !.user = <<Profile(u, users[u])>>,
                                              !.logged_in = TRUE], NoError)
    ELSE AuthResult(FALSE, session[s], "Sign-in failed")

\* sign_in for the account u: sign_in_with_password raises unless the provider
\* accepts the credentials of an account it holds; the profile read .single()
\* raises unless it is answered with the one row of that id.  On success the
\* session holds the users row as it is in the store at that moment.
sign_in(s, u, accepted, raises) ==
    IF accepted /\ u \in credentials /\ ~raises /\ users[u] # NoRow
    THEN AuthResult(TRUE, [session[s] EXCEPT !.user = <<Profile(u, users[u])>>,
                                              !.logged_in = TRUE], NoError)
    ELSE AuthResult(FALSE, session[s], "Sign-in failed")

\* A sign_out that forgets the logged_in flag.
sign_out_UserOnly(s, raises) ==
    IF raises
    THEN AuthResult(FALSE, session[s], "Logout failed")
    ELSE AuthResult(TRUE, [session[s] EXCEPT !.user = None], NoError)

\* sign_out: when the provider call raises, only auth_error is written.
sign_out(s, raises) ==
    IF raises
    THEN AuthResult(FALSE, session[s], "Logout failed")
    ELSE AuthResult(TRUE, [session[s] EXCEPT !.user = None, !.logged_in = FALSE], NoError)

----------------------------------------------------------------------------
(* app.py: sidebar *)

\* The login form is offered to a session that is not logged in.
Login(s, u, accepted, raises) ==
    /\ pc[s].at = "idle"
    /\ ~is_logged_in(s)
    /\ LET after == sign_in(s, u, accepted, raises).session
       IN  session' = [session EXCEPT ![s] =
                         IF after.logged_in THEN [after EXCEPT !.current_page = "home"]
                                            ELSE after]
    /\ shown' = [shown EXCEPT ![s] = "none"]
    /\ UNCHANGED <<cache, credentials, users, memberships, organizations, events, pc, prev, last, out>>

\* A Logout button that leaves the session on the page it was on.
Logout_KeepsPage(s, raises) ==
    /\ pc[s].at = "idle"
    /\ is_logged_in(s)
    /\ session' = [session EXCEPT ![s] = sign_out(s, raises).session]
    /\ shown' = [shown EXCEPT ![s] = "none"]
    /\ UNCHANGED <<cache, credentials, users, memberships, organizations, events, pc, prev, last, out>>

\* The Logout button: sign_out, then current_page = "home" whatever it returned.
Logout(s, raises) ==
    /\ pc[s].at = "idle"
    /\ is_logged_in(s)
    /\ session' = [session EXCEPT ![s] = [sign_out(s, raises).session EXCEPT !.current_page = "home"]]
    /\ shown' = [shown EXCEPT ![s] = "none"]
    /\ UNCHANGED <<cache, credentials, users, memberships, organizations, events, pc, prev, last, out>>

\* The "Clubs Directory" button is offered to a logged-in session.
GoDirectory(s) ==
    /\ pc[s].at = "idle"
    /\ is_logged_in(s)
    /\ session[s].current_page # "directory"
    /\ session' = [session EXCEPT ![s].current_page = "directory"]
    /\ shown' = [shown EXCEPT ![s] = "none"]
    /\ UNCHANGED <<cache, credentials, users, memberships, organizations, events, pc, prev, last, out>>

\* A card for every id, whether or not an organization of that id is stored.
OrgCardShown_AnyId(o) == TRUE

\* show_directory draws a card, with its button, for each organization listed.
OrgCardShown(o) == Truthy(organizations[o])

\* A "View Profile" that changes the page and leaves the selection as it was.
SelectOrg_PageOnly(s, o) ==
    /\ pc[s].at = "idle"
    /\ session[s].current_page = "directory"
    /\ OrgCardShown(o)
    /\ session' = [session EXCEPT ![s].current_page = "detail"]
    /\ pc' = [pc EXCEPT ![s] = [Idle EXCEPT !.at = "rerun"]]
    /\ shown' = [shown EXCEPT ![s] = "none"]
    /\ UNCHANGED <<cache, credentials, users, memberships, organizations, events, prev, last, out>>

\* directory_page.py: "View Profile" on a card.
SelectOrg(s, o) ==
    /\ pc[s].at = "idle"
    /\ session[s].current_page = "directory"
    /\ OrgCardShown(o)
    /\ session' = [session EXCEPT ![s].selected_org_id = o, ![s].current_page = "detail"]
    /\ pc' = [pc EXCEPT ![s] = [Idle EXCEPT !.at = "rerun"]]
    /\ shown' = [shown EXCEPT ![s] = "none"]
    /\ UNCHANGED <<cache, credentials, users, memberships, organizations, events, prev, last, out>>

----------------------------------------------------------------------------
(* detail_page.py: show_group_detail, one store request per step *)

\* A user id taken from somewhere other than the session's own profile.
DetailUserId_NotOwn(s) == "u1"

\* user_id = current_user['id']
DetailUserId(s) == get_current_user(s)[1].id

\* The membership section of one run of the script: which control it shows.
MembershipControl(s, raises) ==
    IF is_logged_in(s)
    THEN IF Truthy(get_user_org_membership_status(
                     memberships, DetailUserId(s), session[s].selected_org_id, raises))
         THEN "leave"
         ELSE "join"
    ELSE "login_info"

\* A run of the script with no button pressed (first display, or after st.rerun()).
DetailRender(s, raises) ==
    /\ pc[s].at \in {"idle", "rerun"}
    /\ session[s].current_page = "detail"
    /\ session[s].selected_org_id # NoOrg
    /\ shown' = [shown EXCEPT ![s] = MembershipControl(s, raises)]
    /\ pc' = [pc EXCEPT ![s] = Idle]
    /\ UNCHANGED <<cache, credentials, users, memberships, organizations, events, session, prev, last, out>>

\* "Join Organization" pressed: the script runs again, reads the status, and
\* reaches the button's branch only when that read finds no membership.
ClickJoin(s, raises) ==
    /\ pc[s].at = "idle"
    /\ session[s].current_page = "detail"
    /\ shown[s] = "join"
    /\ LET control == MembershipControl(s, raises)
       IN  IF control = "join"
           THEN /\ pc' = [pc EXCEPT ![s] = [at |-> "join_check", user_id |-> DetailUserId(s),
                                            org_id |-> session[s].selected_org_id]]
                /\ UNCHANGED shown
           ELSE /\ shown' = [shown EXCEPT ![s] = control]
                /\ UNCHANGED pc
    /\ UNCHANGED <<cache, credentials, users, memberships, organizations, events, session, prev, last, out>>

\* join_organization, first request: the existence check.
JoinCheck(s, raises) ==
    /\ pc[s].at = "join_check"
    /\ IF Truthy(get_user_org_membership_status(memberships, pc[s].user_id, pc[s].org_id, raises))
       THEN pc' = [pc EXCEPT ![s] = Idle]           \* returns False: st.error
       ELSE pc' = [pc EXCEPT ![s].at = "join_insert"]
    /\ UNCHANGED <<cache, credentials, users, memberships, organizations, events, session, shown, prev, last, out>>

\* join_organization, second request: the insert; on True the cache is cleared
\* and the script is run again.
JoinInsert(s, raises) ==
    /\ pc[s].at = "join_insert"
    /\ memberships[<<pc[s].user_id, pc[s].org_id>>] < MaxRows
    /\ IF raises
       THEN /\ pc' = [pc EXCEPT ![s] = Idle]        \* returns False: st.error
            /\ UNCHANGED <<memberships, cache>>
       ELSE /\ memberships' = InsertMembership(memberships, pc[s].user_id, pc[s].org_id)
            /\ cache' = ClearCache(cache)
            /\ pc' = [pc EXCEPT ![s] = [Idle EXCEPT !.at = "rerun"]]
    /\ UNCHANGED <<credentials, users, organizations, events, session, shown, prev, last, out>>

\* "Leave Organization" pressed: the script runs again and reads the status.
ClickLeave(s, raises) ==
    /\ pc[s].at = "idle"
    /\ session[s].current_page = "detail"
    /\ shown[s] = "leave"
    /\ LET control == MembershipControl(s, raises)
       IN  IF control = "leave"
           THEN /\ pc' = [pc EXCEPT ![s] = [at |-> "leave_delete", user_id |-> DetailUserId(s),
                                            org_id |-> session[s].selected_org_id]]
                /\ UNCHANGED shown
           ELSE /\ shown' = [shown EXCEPT ![s] = control]
                /\ UNCHANGED pc
    /\ UNCHANGED <<cache, credentials, users, memberships, organizations, events, session, prev, last, out>>

\* leave_organization: the delete request.
LeaveDelete(s, raises) ==
    /\ pc[s].at = "leave_delete"
    /\ LET r == leave_organization(memberships, pc[s].user_id, pc[s].org_id, raises)
       IN  /\ memberships' = r.mem
           /\ cache' = IF r.ret THEN ClearCache(cache) ELSE cache
           /\ pc' = [pc EXCEPT ![s] = IF r.ret THEN [Idle EXCEPT !.at = "rerun"] ELSE Idle]
    /\ UNCHANGED <<credentials, users, organizations, events, session, shown, prev, last, out>>

InitDetail ==
    /\ InitRest
    /\ memberships = [p \in Pairs |-> 0]
    /\ prev = NoCall
    /\ last = NoCall

\* Outcomes is the set of answers the store may give: {FALSE} a store that
\* answers every request, BOOLEAN one that may also raise.
NextDetail(Outcomes) ==
    \/ \E s \in Sessions, u \in UserIds, accepted \in BOOLEAN, raises \in Outcomes :
          Login(s, u, accepted, raises)
    \/ \E s \in Sessions, raises \in Outcomes : Logout(s, raises)
    \/ \E s \in Sessions : GoDirectory(s)
    \/ \E s \in Sessions, o \in OrgIds : SelectOrg(s, o)
    \/ \E s \in Sessions, raises \in Outcomes : DetailRender(s, raises)
    \/ \E s \in Sessions, raises \in Outcomes : ClickJoin(s, raises)
    \/ \E s \in Sessions, raises \in Outcomes : JoinCheck(s, raises)
    \/ \E s \in Sessions, raises \in Outcomes : JoinInsert(s, raises)
    \/ \E s \in Sessions, raises \in Outcomes : ClickLeave(s, raises)
    \/ \E s \in Sessions, raises \in Outcomes : LeaveDelete(s, raises)

\* The store may raise on any request.
SpecDetail == InitDetail /\ [][NextDetail(BOOLEAN)]_vars

\* The store answers every request: what is left is the interleaving of sessions.
SpecDetailReliable == InitDetail /\ [][NextDetail({FALSE})]_vars

----------------------------------------------------------------------------
(* database_manager.py: user and organization functions *)

\* The methods class DatabaseManager defines.
DatabaseManagerMethods ==
    {"get_user_profile", "create_user_profile", "get_all_users_with_profiles",
     "update_user_role", "get_org_directory", "get_organization_by_id",
     "add_organization", "get_orgs_for_user", "get_memberships_for_org",
     "get_user_org_membership_status", "join_organization", "leave_organization",
     "add_event", "get_all_events"}

\* db_manager.<name>(...): a name the class does not define raises
\* AttributeError in the caller; otherwise the method's own result comes back.
CallMethod(name, result) ==
    IF name \in DatabaseManagerMethods THEN result ELSE "AttributeError"

PyBool(b) == IF b THEN "True" ELSE "False"

\* select("*").order("full_name"): the ids with a row; [] when the request raises.
get_all_users_with_profiles(us, raises) ==
    IF raises THEN {} ELSE {u \in UserIds : us[u] # NoRow}

\* update({"role": new_role}).eq("id", user_id): bool(response.data) is whether a row matched.
update_user_role(us, user_id, new_role, raises) ==
    IF raises \/ us[user_id] = NoRow
    THEN [ret |-> FALSE, users |-> us]
    ELSE [ret |-> TRUE, users |-> [us EXCEPT ![user_id] = new_role]]

\* select("*").order("name"): the ids with a row; [] when the request raises.
get_org_directory(orgs, raises) ==
    IF raises THEN {} ELSE {o \in OrgIds : Truthy(orgs[o])}

\* insert(org_data): the store gives the new row its id.
add_organization(orgs, o, row, raises) ==
    IF raises \/ Truthy(orgs[o])
    THEN [ret |-> FALSE, organizations |-> orgs]
    ELSE [ret |-> TRUE, organizations |-> [orgs EXCEPT ![o] = <<row>>]]

----------------------------------------------------------------------------
(* auth_manager.py: sign_up *)

\* sign_up(email, password, full_name, grad_year, role="student"): app.py passes
\* no role.  u is the id of the account asked for.  First the provider call:
\* it makes the account, or (rejected, or the account exists) gives none.  Then
\* the insert of the users row: inserted says it returned the row; when it
\* raises or returns nothing the account made by the first step stays.
sign_up(s, u, accepted, inserted) ==
    IF ~accepted \/ u \in credentials
    THEN [ret |-> FALSE, session |-> session[s], auth_error |-> "Sign-up failed",
          users |-> users, credentials |-> credentials]
    ELSE IF ~inserted \/ users[u] # NoRow
    THEN [ret |-> FALSE, session |-> session[s], auth_error |-> "Failed to create user profile.",
          users |-> users, credentials |-> credentials \cup {u}]
    ELSE [ret |-> TRUE,
          session |-> [session[s] EXCEPT !.user = <<Profile(u, "student")>>, !.logged_in = TRUE],
          auth_error |-> NoError,
          users |-> [users EXCEPT ![u] = "student"], credentials |-> credentials \cup {u}]

----------------------------------------------------------------------------
(* admin_panel_page.py *)

possible_roles == {"student", "club_leader", "faculty", "teacher", "admin"}

org_categories == <<"Academic", "Athletics", "Arts & Culture", "Community Service",
                    "STEM", "Student Government", "Other">>

AdminOut(s, kind, target, new_role, called, ret) ==
    [view |-> "admin", kind |-> kind, role |-> get_user_role(s),
     actor |-> IF Truthy(get_current_user(s)) THEN get_current_user(s)[1].id ELSE NoUser,
     target |-> target, new_role |-> new_role, called |-> called, ret |-> ret]

SidebarOut(kind) ==
    [view |-> "sidebar", kind |-> kind, role |-> NoRole, actor |-> NoUser,
     target |-> NoUser, new_role |-> NoRole, called |-> "none", ret |-> "none"]

\* The outcome of a sidebar or sign-up form action of session s for account u:
\* what the AuthManager call returned, the auth_error it left, and what the
\* provider and the store answered.
AuthOut(kind, s, u, r, provider_accepted, store_answered, created) ==
    [view |-> "sidebar", kind |-> kind, role |-> NoRole, actor |-> NoUser,
     target |-> NoUser, new_role |-> NoRole, called |-> "none", ret |-> "none",
     sid |-> s, user_id |-> u, ok |-> r.ret, auth_error |-> r.auth_error,
     provider_accepted |-> provider_accepted, store_answered |-> store_answered,
     created |-> created]

\* How far a run of show_admin_panel_page gets before its forms:
\* auth.get_current_user().get('id') raises AttributeError when no user is in
\* the session; any role but 'admin' ends in "Access Denied"; an empty user list
\* ends the page before any form.
AdminGate(s, raisesUsers) ==
    IF ~Truthy(get_current_user(s)) THEN "exception"
    ELSE IF get_user_role(s) # "admin" THEN "denied"
    ELSE IF get_all_users_with_profiles(users, raisesUsers) = {} THEN "no_users"
    ELSE "panel"

\* A role form with no guard on the acting admin's own row.
SelfDemotion_NoGuard(current_user_id, user_to_change_id, new_role) == FALSE

\* A guard that refuses every change of the acting admin's own row.
SelfDemotion_AnySelfChange(current_user_id, user_to_change_id, new_role) ==
    user_to_change_id = current_user_id

\* user_to_change_id == current_user_id and new_role != 'admin'
SelfDemotion(current_user_id, user_to_change_id, new_role) ==
    user_to_change_id = current_user_id /\ new_role # "admin"

\* A run with no form submitted.
AdminRender(s, raisesUsers) ==
    /\ out' = AdminOut(s, AdminGate(s, raisesUsers), NoUser, NoRole, "none", "none")
    /\ UNCHANGED <<cache, credentials, users, memberships, organizations, events, session, pc, shown, prev, last>>

\* "Update Role" submitted with user_to_change_id = target and the chosen new_role.
AdminUpdateRole(s, target, new_role, raisesUsers, raisesUpdate) ==
    /\ LET gate == AdminGate(s, raisesUsers)
       IN  IF gate # "panel"
           THEN /\ out' = AdminOut(s, gate, NoUser, NoRole, "none", "none")
                /\ UNCHANGED users
           ELSE /\ target \in get_all_users_with_profiles(users, raisesUsers)
                /\ IF SelfDemotion(get_current_user(s)[1].id, target, new_role)
                   THEN /\ out' = AdminOut(s, "role_denied", target, new_role, "none", "none")
                        /\ UNCHANGED users
                   ELSE LET r == update_user_role(users, target, new_role, raisesUpdate)
                        IN  /\ users' = r.users
                            /\ out' = AdminOut(s, IF r.ret THEN "role_updated" ELSE "role_failed",
                                               target, new_role, "update_user_role",
                                               CallMethod("update_user_role", PyBool(r.ret)))
    /\ UNCHANGED <<cache, credentials, memberships, organizations, events, session, pc, shown, prev, last>>

\* "Create Organization" submitted; valid: the required fields are filled in.
AdminAddOrganization(s, o, valid, raisesUsers, raisesInsert) ==
    /\ LET gate == AdminGate(s, raisesUsers)
           row == [name |-> <<"b">>, category |-> org_categories[1]]
       IN  IF gate # "panel" \/ ~valid
           THEN /\ out' = AdminOut(s, IF gate = "panel" THEN "invalid" ELSE gate,
                                   NoUser, NoRole, "none", "none")
                /\ UNCHANGED organizations
           ELSE LET r == add_organization(organizations, o, row, raisesInsert)
                IN  /\ ~Truthy(organizations[o])
                    /\ organizations' = r.organizations
                    /\ out' = AdminOut(s, IF r.ret THEN "org_created" ELSE "org_failed",
                                       NoUser, NoRole, "add_organization",
                                       CallMethod("add_organization", PyBool(r.ret)))
    /\ UNCHANGED <<cache, credentials, users, memberships, events, session, pc, shown, prev, last>>

\* The outcome of a run of view_edit_organizations_section in session s with
\* organization o selected.
AdminOrgOut(s, kind, o, called, ret) ==
    [view |-> "admin", kind |-> kind, role |-> get_user_role(s),
     actor |-> IF Truthy(get_current_user(s)) THEN get_current_user(s)[1].id ELSE NoUser,
     target |-> NoUser, new_role |-> NoRole, called |-> called, ret |-> ret,
     sid |-> s, org |-> o]

\* A confirmation that is offered whatever the flag holds.
DeleteConfirmShown_Always(s, o) == TRUE

\* if st.session_state[f'confirm_delete_{selected_org_id}']:
DeleteConfirmShown(s, o) == o \in session[s].confirm_delete

\* The organization o is offered by view_edit_organizations_section.
OrgListed(s, o, raisesUsers, raisesOrgs) ==
    /\ AdminGate(s, raisesUsers) = "panel"
    /\ o \in get_org_directory(organizations, raisesOrgs)

\* "Update Organization" submitted: the pending delete flag is reset, then
\* db_manager.update_organization is called.
AdminUpdateOrganization(s, o, valid, raisesUsers, raisesOrgs) ==
    /\ OrgListed(s, o, raisesUsers, raisesOrgs)
    /\ session' = [session EXCEPT ![s].confirm_delete = @ \ {o}]
    /\ out' = IF valid
              THEN LET ret == CallMethod("update_organization", "True")
                   IN  AdminOrgOut(s, IF ret = "AttributeError" THEN "exception" ELSE "org_updated",
                                   o, "update_organization", ret)
              ELSE AdminOrgOut(s, "update_invalid", o, "none", "none")
    /\ UNCHANGED <<cache, credentials, users, memberships, organizations, events, pc, shown, prev, last>>

\* "Delete Organization" submitted: only sets confirm_delete_<id>.
AdminRequestDelete(s, o, raisesUsers, raisesOrgs) ==
    /\ OrgListed(s, o, raisesUsers, raisesOrgs)
    /\ session' = [session EXCEPT ![s].confirm_delete = @ \cup {o}]
    /\ out' = AdminOrgOut(s, "delete_requested", o, "none", "none")
    /\ UNCHANGED <<cache, credentials, users, memberships, organizations, events, pc, shown, prev, last>>

\* "Confirm Delete" pressed: the button exists only while the flag is set.
AdminConfirmDelete(s, o, raisesUsers, raisesOrgs) ==
    /\ OrgListed(s, o, raisesUsers, raisesOrgs)
    /\ DeleteConfirmShown(s, o)
    /\ LET ret == CallMethod("delete_organization", "True")
       IN  /\ out' = AdminOrgOut(s, IF ret = "AttributeError" THEN "exception" ELSE "org_deleted",
                                 o, "delete_organization", ret)
           /\ session' = IF ret = "True"
                         THEN [session EXCEPT ![s].confirm_delete = @ \ {o}]
                         ELSE session
    /\ UNCHANGED <<cache, credentials, users, memberships, organizations, events, pc, shown, prev, last>>

\* "Cancel Delete" pressed.
AdminCancelDelete(s, o, raisesUsers, raisesOrgs) ==
    /\ OrgListed(s, o, raisesUsers, raisesOrgs)
    /\ DeleteConfirmShown(s, o)
    /\ session' = [session EXCEPT ![s].confirm_delete = @ \ {o}]
    /\ out' = AdminOrgOut(s, "delete_cancelled", o, "none", "none")
    /\ UNCHANGED <<cache, credentials, users, memberships, organizations, events, pc, shown, prev, last>>

\* app.py, the sidebar and the sign-up form, as the Admin specification takes them.
AdminLogin(s, u, accepted, raises) ==
    /\ ~is_logged_in(s)
    /\ LET r == sign_in(s, u, accepted, raises)
       IN  /\ session' = [session EXCEPT ![s] = r.session]
           /\ out' = AuthOut(IF r.ret THEN "logged_in" ELSE "login_failed", s, u, r,
                             accepted /\ u \in credentials, ~raises, FALSE)
    /\ UNCHANGED <<cache, credentials, users, memberships, organizations, events, pc, shown, prev, last>>

AdminLogout(s, raises) ==
    /\ is_logged_in(s)
    /\ session' = [session EXCEPT ![s] = sign_out(s, raises).session]
    /\ out' = AuthOut("logout", s, NoUser, sign_out(s, raises), ~raises, TRUE, FALSE)
    /\ UNCHANGED <<cache, credentials, users, memberships, organizations, events, pc, shown, prev, last>>

SignUp(s, u, accepted, inserted) ==
    /\ ~is_logged_in(s)
    /\ users[u] = NoRow
    /\ LET r == sign_up(s, u, accepted, inserted)
       IN  /\ users' = r.users
           /\ credentials' = r.credentials
           /\ session' = [session EXCEPT ![s] = r.session]
           /\ out' = AuthOut(IF r.ret THEN "signed_up" ELSE "signup_failed", s, u, r,
                             accepted /\ u \notin credentials, inserted,
                             u \in r.credentials \ credentials)
    /\ UNCHANGED <<cache, memberships, organizations, events, pc, shown, prev, last>>

InitAdminRest ==
    /\ events = [i \in EventIds |-> None]
    /\ memberships = [p \in Pairs |-> 0]
    /\ session = [s \in Sessions |-> LoggedOut]
    /\ pc = [s \in Sessions |-> Idle]
    /\ shown = [s \in Sessions |-> "none"]
    /\ prev = NoCall
    /\ last = NoCall
    /\ out = SidebarOut("none")

\* User management: u1 is the admin made in the store, u2 has not signed up yet.
InitAdmin ==
    /\ InitAdminRest
    /\ users = [u \in UserIds |-> IF u = "u1" THEN "admin" ELSE NoRow]
    /\ credentials = {u \in UserIds : users[u] # NoRow}
    /\ cache = EmptyCache
    /\ organizations = InitOrganizations

NextAdmin ==
    \/ \E s \in Sessions, u \in UserIds, accepted \in BOOLEAN, raises \in BOOLEAN :
          AdminLogin(s, u, accepted, raises)
    \/ \E s \in Sessions, raises \in BOOLEAN : AdminLogout(s, raises)
    \/ \E s \in Sessions, u \in UserIds, accepted \in BOOLEAN, inserted \in BOOLEAN :
          SignUp(s, u, accepted, inserted)
    \/ \E s \in Sessions, raisesUsers \in BOOLEAN : AdminRender(s, raisesUsers)
    \/ \E s \in Sessions, target \in UserIds, new_role \in possible_roles,
          raisesUsers \in BOOLEAN, raisesUpdate \in BOOLEAN :
          AdminUpdateRole(s, target, new_role, raisesUsers, raisesUpdate)

SpecAdmin == InitAdmin /\ [][NextAdmin]_vars

\* Organization management: both accounts exist, one organization exists.
InitAdminOrgs ==
    /\ InitAdminRest
    /\ users = InitUsers
    /\ credentials = {u \in UserIds : users[u] # NoRow}
    /\ cache = EmptyCache
    /\ organizations = [o \in OrgIds |-> IF o = "o1" THEN InitOrganizations[o] ELSE None]

NextAdminOrgs ==
    \/ \E s \in Sessions, u \in UserIds, accepted \in BOOLEAN, raises \in BOOLEAN :
          AdminLogin(s, u, accepted, raises)
    \/ \E s \in Sessions, raises \in BOOLEAN : AdminLogout(s, raises)
    \/ \E s \in Sessions, raisesUsers \in BOOLEAN : AdminRender(s, raisesUsers)
    \/ \E s \in Sessions, o \in OrgIds, valid \in BOOLEAN,
          raisesUsers \in BOOLEAN, raisesInsert \in BOOLEAN :
          AdminAddOrganization(s, o, valid, raisesUsers, raisesInsert)
    \/ \E s \in Sessions, o \in OrgIds, valid \in BOOLEAN,
          raisesUsers \in BOOLEAN, raisesOrgs \in BOOLEAN :
          AdminUpdateOrganization(s, o, valid, raisesUsers, raisesOrgs)
    \/ \E s \in Sessions, o \in OrgIds, raisesUsers \in BOOLEAN, raisesOrgs \in BOOLEAN :
          AdminRequestDelete(s, o, raisesUsers, raisesOrgs)
    \/ \E s \in Sessions, o \in OrgIds, raisesUsers \in BOOLEAN, raisesOrgs \in BOOLEAN :
          AdminConfirmDelete(s, o, raisesUsers, raisesOrgs)
    \/ \E s \in Sessions, o \in OrgIds, raisesUsers \in BOOLEAN, raisesOrgs \in BOOLEAN :
          AdminCancelDelete(s, o, raisesUsers, raisesOrgs)

SpecAdminOrgs == InitAdminOrgs /\ [][NextAdminOrgs]_vars

----------------------------------------------------------------------------
(* The store's select ... order(column): every enumeration of the selected  *)
(* rows that is ascending in the column; rows equal in it come in any order *)

Enumerations(S) ==
    {q \in [1..Cardinality(S) -> S] : \A i, j \in 1..Cardinality(S) : q[i] = q[j] => i = j}

OrderedBy(S, key) ==
    {q \in Enumerations(S) : \A i, j \in 1..Cardinality(S) : i < j => key[q[i]] <= key[q[j]]}

----------------------------------------------------------------------------
(* database_manager.py: event functions; event_form.py *)

\* event_data, the fields the listing and the store look at; max_attendees is
\* None or <<n>>.
EventRow(start_time, is_public, organization_id, max_attendees) ==
    [start_time |-> start_time, is_public |-> is_public, organization_id |-> organization_id,
     max_attendees |-> max_attendees]

\* The id the store gives the next inserted event.
NextEventId(evs) == CHOOSE i \in EventIds : ~Truthy(evs[i]) /\ \A j \in 1..(i - 1) : Truthy(evs[j])

\* The store's answer to insert(event_data): the request raises when the
\* transport fails and when organization_id refers to no organizations row
\* (events.organization_id is a foreign key, the one the listing embeds by).
InsertEventRaises(orgs, row, raises) == raises \/ ~Truthy(orgs[row.organization_id])

\* An add_event that reports True without looking at what the request did.
add_event_ReportsTrue(evs, row, raises) ==
    [ret |-> TRUE,
     events |-> IF InsertEventRaises(organizations, row, raises)
                THEN evs
                ELSE [evs EXCEPT ![NextEventId(evs)] = <<row>>]]

\* insert(event_data): bool(response.data), or False when the request raises.
add_event(evs, row, raises) ==
    IF InsertEventRaises(organizations, row, raises)
    THEN [ret |-> FALSE, events |-> evs]
    ELSE [ret |-> TRUE, events |-> [evs EXCEPT ![NextEventId(evs)] = <<row>>]]

\* A filter that lets every row through.
EventSelected_NoFilter(row, include_private) == TRUE

\* if not include_private: query = query.eq("is_public", True)
EventSelected(row, include_private) == include_private \/ row.is_public

\* An embedding that takes the same organization for every event.
EmbeddedOrganization_Fixed(evs, i) == organizations["o1"]

\* select("*, organizations(name, category)"): the row's 'organizations' value
\* is the organization its organization_id refers to, None when there is none.
EmbeddedOrganization(evs, i) == organizations[evs[i][1].organization_id]

EventColumns == {"id", "start_time", "is_public", "organization_id"}

\* The flattening loop: when the embedded value is truthy, organization name
\* and category are copied to the top level; the 'organizations' key is popped
\* in every case.  A field the row does not carry is None here, one it carries
\* is <<value>>.
FlatEvent(evs, i) ==
    LET embedded == EmbeddedOrganization(evs, i)
    IN  [id |-> i, start_time |-> evs[i][1].start_time, is_public |-> evs[i][1].is_public,
         organization_id |-> evs[i][1].organization_id,
         organization_name |-> IF Truthy(embedded) THEN <<embedded[1].name>> ELSE None,
         organization_category |-> IF Truthy(embedded) THEN <<embedded[1].category>> ELSE None,
         keys |-> ((EventColumns \cup {"organizations"})
                    \cup (IF Truthy(embedded)
                          THEN {"organization_name", "organization_category"} ELSE {}))
                  \ {"organizations"}]

\* get_all_events: the results the call may return (one per order the store
\* may give rows of equal start_time); [] when the request raises.
get_all_events(evs, include_private, raises) ==
    IF raises
    THEN {<< >>}
    ELSE LET selected == {i \in EventIds : Truthy(evs[i]) /\ EventSelected(evs[i][1], include_private)}
             start_time == [i \in selected |-> evs[i][1].start_time]
         IN  {[k \in 1..Cardinality(selected) |-> FlatEvent(evs, q[k])] :
                 q \in OrderedBy(selected, start_time)}

EventCall(op, include_private, ret, raised, rows) ==
    [op |-> op, include_private |-> include_private, ret |-> ret, raised |-> raised, rows |-> rows]

\* The most the "Max Attendees" field is given.
MaxEntered == 2

\* number_input(min_value=0, step=1, value=0): a whole number from 0 up.
AttendeeInputs == 0..MaxEntered

\* A field handed on as entered.
max_attendees_AsEntered(entered) == <<entered>>

\* if max_attendees == 0: max_attendees = None
max_attendees(entered) == IF entered = 0 THEN None ELSE <<entered>>

\* get_org_list_for_dropdown: the ids behind the names the "Host Organization"
\* box offers; none when the read raises.
HostOrganizations(raisesOrgs) == get_org_directory(organizations, raisesOrgs)

\* The record of the form's add_event call: what it returned and the number
\* the "Max Attendees" field held.
FormCall(ret, raised, entered) ==
    [op |-> "add_event", include_private |-> FALSE, ret |-> ret, raised |-> raised,
     rows |-> << >>, entered |-> entered]

\* event_form.py: "Submit Event" with the required fields filled in, a host
\* organization of the dropdown and a number in "Max Attendees".
SubmitEvent(start_time, is_public, o, entered, raises) ==
    /\ o \in HostOrganizations(FALSE)
    /\ \E i \in EventIds : ~Truthy(events[i])
    /\ LET r == add_event(events, EventRow(start_time, is_public, o, max_attendees(entered)),
                          raises)
       IN  /\ events' = r.events
           /\ cache' = IF r.ret THEN ClearCache(cache) ELSE cache
           /\ last' = FormCall(r.ret, raises, entered)
    /\ UNCHANGED <<credentials, users, memberships, organizations, session, pc, shown, prev, out>>

ListEvents(include_private, raises) ==
    /\ \E rows \in get_all_events(events, include_private, raises) :
          last' = EventCall("get_all_events", include_private, FALSE, raises, rows)
    /\ UNCHANGED <<cache, credentials, users, memberships, organizations, events, session, pc, shown, prev, out>>

InitEvents ==
    /\ users = InitUsers
    /\ credentials = {u \in UserIds : users[u] # NoRow}
    /\ cache = EmptyCache
    /\ organizations = InitOrganizations
    /\ memberships = [p \in Pairs |-> 0]
    /\ events = [i \in EventIds |-> None]
    /\ session = [s \in Sessions |-> LoggedOut]
    /\ pc = [s \in Sessions |-> Idle]
    /\ shown = [s \in Sessions |-> "none"]
    /\ out = NoOut
    /\ prev = EventCall("none", FALSE, FALSE, FALSE, << >>)
    /\ last = EventCall("none", FALSE, FALSE, FALSE, << >>)

NextEvents ==
    \/ \E start_time \in Times, is_public \in BOOLEAN, o \in OrgIds, raises \in BOOLEAN :
          SubmitEvent(start_time, is_public, o, 0, raises)
    \/ \E include_private \in BOOLEAN, raises \in BOOLEAN : ListEvents(include_private, raises)

SpecEvents == InitEvents /\ [][NextEvents]_vars

----------------------------------------------------------------------------
(* directory_page.py *)

\* The longest organization name and search text drawn.
MaxNameLen == 2

Letters == {"A", "a", "b"}
Texts == UNION {[1..n -> Letters] : n \in 0..MaxNameLen}
Names == Texts \ {<< >>}
NoCategory == "NoCategory"
Categories == {"Academic", "STEM"}

\* str.lower(), letter by letter.
LowerChar(c) == IF c = "A" THEN "a" ELSE c
Lower(t) == [k \in 1..Len(t) |-> LowerChar(t[k])]

\* A search text handed on as typed.
SearchQuery_AsTyped(text) == text

\* search_query = st.text_input(...).lower()
SearchQuery(text) == Lower(text)

\* Python's `a in b` on strings.
Contains(a, b) ==
    \E k \in 0..Len(b) : k + Len(a) <= Len(b) /\ \A i \in 1..Len(a) : b[k + i] = a[i]

\* The order of the store's ORDER BY name.
CharRank(c) == CASE c = "A" -> 1 [] c = "a" -> 2 [] c = "b" -> 3

\* The place of a name in that order: letter by letter, a prefix first.
RECURSIVE NameRank(_, _)
NameRank(name, places) ==
    IF places = 0 THEN 0
    ELSE IF name = << >> THEN 0
    ELSE CharRank(Head(name)) * (Cardinality(Letters) + 1) ^ (places - 1)
         + NameRank(Tail(name), places - 1)

\* get_data_for_directory: the lists get_org_directory may return.
get_data_for_directory(orgs) ==
    LET listed == {o \in OrgIds : Truthy(orgs[o])}
        name == [o \in listed |-> NameRank(orgs[o][1].name, MaxNameLen)]
    IN  OrderedBy(listed, name)

\* sorted(list(set(org.get('category') for org in org_data if org.get('category'))))
all_categories(orgs, org_data) ==
    {orgs[org_data[k]][1].category : k \in 1..Len(org_data)} \ {NoCategory}

CategoryOptions(orgs, org_data) == {"All"} \cup all_categories(orgs, org_data)

\* The condition under which the filter loop appends an organization.
Matches(org, search_query, selected_category) ==
    /\ Contains(search_query, Lower(org.name))
    /\ (selected_category = "All" \/ org.category = selected_category)

RECURSIVE filtered_orgs(_, _, _, _)
filtered_orgs(orgs, org_data, search_query, selected_category) ==
    IF org_data = << >> THEN << >>
    ELSE LET rest == filtered_orgs(orgs, Tail(org_data), search_query, selected_category)
         IN  IF Matches(orgs[Head(org_data)][1], search_query, selected_category)
             THEN <<Head(org_data)>> \o rest
             ELSE rest

DirectoryOut(text, selected_category, org_data, displayed) ==
    [view |-> "directory", text |-> text, selected_category |-> selected_category,
     org_data |-> org_data, displayed |-> displayed]

\* One run of show_directory with a typed search text and a chosen category.
ShowDirectory(text, selected_category) ==
    /\ out = NoOut
    /\ \E org_data \in get_data_for_directory(organizations) :
          /\ org_data # << >>
          /\ selected_category \in CategoryOptions(organizations, org_data)
          /\ out' = DirectoryOut(text, selected_category, org_data,
                                 filtered_orgs(organizations, org_data,
                                               SearchQuery(text), selected_category))
    /\ UNCHANGED <<cache, credentials, users, memberships, organizations, events, session, pc, shown, prev, last>>

\* "No organizations found in the database." and return.
ShowDirectoryEmpty ==
    /\ out = NoOut
    /\ get_data_for_directory(organizations) = {<< >>}
    /\ out' = DirectoryOut(<< >>, "All", << >>, << >>)
    /\ UNCHANGED <<cache, credentials, users, memberships, organizations, events, session, pc, shown, prev, last>>

OrgRows == {None} \cup {<<[name |-> n, category |-> c]>> : n \in Names, c \in Categories \cup {NoCategory}}

InitDirectory ==
    /\ users = InitUsers
    /\ credentials = {u \in UserIds : users[u] # NoRow}
    /\ cache = EmptyCache
    /\ organizations \in [OrgIds -> OrgRows]
    /\ memberships = [p \in Pairs |-> 0]
    /\ events = [i \in EventIds |-> None]
    /\ session = [s \in Sessions |-> LoggedOut]
    /\ pc = [s \in Sessions |-> Idle]
    /\ shown = [s \in Sessions |-> "none"]
    /\ out = NoOut
    /\ prev = NoCall
    /\ last = NoCall

NextDirectory ==
    \/ \E text \in Texts, selected_category \in {"All"} \cup Categories :
          ShowDirectory(text, selected_category)
    \/ ShowDirectoryEmpty

SpecDirectory == InitDirectory /\ [][NextDirectory]_vars

----------------------------------------------------------------------------
(* The views that read a role: admin_panel_page.py, detail_page.py,         *)
(* profile_page.py                                                          *)

\* The values a stored role is drawn from: the roles the role form offers and
\* one string it does not offer.
RoleValues == possible_roles \cup {"parent"}

\* possible_roles.index(<current role of the selected user>): list.index raises
\* ValueError for a value that is not in the list.
RoleFormIndex(us, user_to_change_id) ==
    IF us[user_to_change_id] \in possible_roles THEN "index" ELSE "ValueError"

\* user_role in ['admin', 'faculty', 'club_leader']
is_admin_or_leader(user_role) == user_role \in {"admin", "faculty", "club_leader"}

RoleViewOut(s, view, kind, target, admin_access, edit_enabled) ==
    [view |-> view, kind |-> kind, role |-> get_user_role(s),
     actor |-> IF Truthy(get_current_user(s)) THEN get_current_user(s)[1].id ELSE NoUser,
     target |-> target, admin_access |-> admin_access, edit_enabled |-> edit_enabled]

\* A run of show_admin_panel_page up to the end of the role form, with
\* `selected` the user the "Select User" box holds.
AdminRoleForm(s, selected, raisesUsers) ==
    /\ LET gate == AdminGate(s, raisesUsers)
       IN  IF gate # "panel"
           THEN out' = RoleViewOut(s, "admin", gate, NoUser, gate = "no_users", FALSE)
           ELSE /\ selected \in get_all_users_with_profiles(users, raisesUsers)
                /\ out' = RoleViewOut(s, "admin",
                                      IF RoleFormIndex(users, selected) = "ValueError"
                                      THEN "exception" ELSE "panel",
                                      selected, TRUE, FALSE)
    /\ UNCHANGED <<cache, credentials, users, memberships, organizations, events, session, pc, shown, prev, last>>

\* show_group_detail, the header: the "Edit Page" button is enabled by the role.
DetailHeader(s, o) ==
    /\ Truthy(organizations[o])
    /\ out' = RoleViewOut(s, "detail", "rendered", NoUser, FALSE,
                          is_admin_or_leader(get_user_role(s)))
    /\ UNCHANGED <<cache, credentials, users, memberships, organizations, events, session, pc, shown, prev, last>>

\* show_profile_page: a warning with no user; else the role string is shown
\* with '_' replaced and title-cased, which any string allows.
ProfileRender(s) ==
    /\ out' = RoleViewOut(s, "profile",
                          IF Truthy(get_current_user(s)) THEN "rendered" ELSE "login_warning",
                          NoUser, FALSE, FALSE)
    /\ UNCHANGED <<cache, credentials, users, memberships, organizations, events, session, pc, shown, prev, last>>

InitRoles ==
    /\ InitAdminRest
    /\ users \in [UserIds -> RoleValues]
    /\ credentials = {u \in UserIds : users[u] # NoRow}
    /\ cache = EmptyCache
    /\ organizations = InitOrganizations

NextRoles ==
    \/ \E s \in Sessions, u \in UserIds, accepted \in BOOLEAN, raises \in BOOLEAN :
          AdminLogin(s, u, accepted, raises)
    \/ \E s \in Sessions, raises \in BOOLEAN : AdminLogout(s, raises)
    \/ \E s \in Sessions, selected \in UserIds, raisesUsers \in BOOLEAN :
          AdminRoleForm(s, selected, raisesUsers)
    \/ \E s \in Sessions, o \in OrgIds : DetailHeader(s, o)
    \/ \E s \in Sessions : ProfileRender(s)

SpecRoles == InitRoles /\ [][NextRoles]_vars

----------------------------------------------------------------------------
(* Stored categories outside the form's list: admin_panel_page.py edit       *)
(* form, directory_page.py                                                   *)

CategoryEnum == {org_categories[k] : k \in 1..Len(org_categories)}

\* The values a stored category is drawn from: the listed categories, one
\* string outside the list, and no category.
CategoryValues == CategoryEnum \cup {"Gaming", NoCategory}

\* list.index: the 0-based place of a value; raises ValueError when it is not there.
ListIndex(list, value) ==
    IF \E k \in 1..Len(list) : list[k] = value
    THEN [raises |-> FALSE, index |-> (CHOOSE k \in 1..Len(list) : list[k] = value) - 1]
    ELSE [raises |-> TRUE, index |-> 0]

\* An index taken without asking whether the value is in the list.
CategoryIndex_Unguarded(category) == ListIndex(org_categories, category)

\* index=org_categories.index(category) if category in org_categories else 0
CategoryIndex(category) ==
    IF category \in CategoryEnum
    THEN ListIndex(org_categories, category)
    ELSE [raises |-> FALSE, index |-> 0]

EditFormOut(s, o, kind, index) ==
    [view |-> "edit_form", kind |-> kind, actor |-> get_current_user(s)[1].id, org |-> o,
     category |-> organizations[o][1].category, index |-> index,
     preselected |-> IF kind = "form" THEN org_categories[index + 1] ELSE NoCategory]

\* A run of view_edit_organizations_section with organization o selected and
\* no button pressed: the edit form is built with its category preselected.
AdminEditForm(s, o, raisesUsers, raisesOrgs) ==
    /\ OrgListed(s, o, raisesUsers, raisesOrgs)
    /\ LET index == CategoryIndex(organizations[o][1].category)
       IN  out' = EditFormOut(s, o, IF index.raises THEN "exception" ELSE "form", index.index)
    /\ UNCHANGED <<cache, credentials, users, memberships, organizations, events, session, pc, shown, prev, last>>

InitCategories ==
    /\ events = [i \in EventIds |-> None]
    /\ memberships = [p \in Pairs |-> 0]
    /\ session = [s \in Sessions |-> LoggedOut]
    /\ pc = [s \in Sessions |-> Idle]
    /\ shown = [s \in Sessions |-> "none"]
    /\ prev = NoCall
    /\ last = NoCall
    /\ out = NoOut
    /\ users = InitUsers
    /\ credentials = {u \in UserIds : users[u] # NoRow}
    /\ cache = EmptyCache
    /\ organizations \in [OrgIds -> {None} \cup {<<[name |-> <<"A", "b">>, category |-> c]>> :
                                                    c \in CategoryValues}]

NextCategories ==
    \/ \E s \in Sessions, u \in UserIds, accepted \in BOOLEAN, raises \in BOOLEAN :
          AdminLogin(s, u, accepted, raises)
    \/ \E s \in Sessions, o \in OrgIds, raisesUsers \in BOOLEAN, raisesOrgs \in BOOLEAN :
          AdminEditForm(s, o, raisesUsers, raisesOrgs)
    \/ \E text \in Texts, selected_category \in {"All"} \cup CategoryValues :
          ShowDirectory(text, selected_category)
    \/ ShowDirectoryEmpty

SpecCategories == InitCategories /\ [][NextCategories]_vars

----------------------------------------------------------------------------
(* auth_manager.py with the forms of app.py: sign-up, login, logout *)

\* One account exists with its row; u2 has neither account nor row.
InitAuth ==
    /\ InitAdminRest
    /\ users = [u \in UserIds |-> IF u = "u1" THEN "admin" ELSE NoRow]
    /\ credentials = {u \in UserIds : users[u] # NoRow}
    /\ cache = EmptyCache
    /\ organizations = InitOrganizations

NextAuth ==
    \/ \E s \in Sessions, u \in UserIds, accepted \in BOOLEAN, inserted \in BOOLEAN :
          SignUp(s, u, accepted, inserted)
    \/ \E s \in Sessions, u \in UserIds, accepted \in BOOLEAN, raises \in BOOLEAN :
          AdminLogin(s, u, accepted, raises)
    \/ \E s \in Sessions, raises \in BOOLEAN : AdminLogout(s, raises)

SpecAuth == InitAuth /\ [][NextAuth]_vars

----------------------------------------------------------------------------
(* The whole application: sign-up, the Detail view's join and leave, the     *)
(* Admin view's role form and organization management, over a store that     *)
(* starts with one account and one organization                              *)

InitHub ==
    /\ InitAdminRest
    /\ users = [u \in UserIds |-> IF u = "u1" THEN "admin" ELSE NoRow]
    /\ credentials = {u \in UserIds : users[u] # NoRow}
    /\ cache = EmptyCache
    /\ organizations = [o \in OrgIds |-> IF o = "o1" THEN InitOrganizations[o] ELSE None]

\* One browser session is used for the Admin view, the other for sign-up, the
\* Directory and the Detail view.
AdminSessions == {"s1"}
MemberSessions == {"s2"}

NextHub ==
    \/ \E s \in MemberSessions, u \in UserIds, inserted \in BOOLEAN :
          SignUp(s, u, TRUE, inserted)
    \/ \E s \in Sessions, u \in UserIds : Login(s, u, TRUE, FALSE)
    \/ \E s \in Sessions : Logout(s, FALSE)
    \/ \E s \in MemberSessions : GoDirectory(s)
    \/ \E s \in MemberSessions, o \in OrgIds : SelectOrg(s, o)
    \/ \E s \in MemberSessions : DetailRender(s, FALSE)
    \/ \E s \in MemberSessions : ClickJoin(s, FALSE)
    \/ \E s \in MemberSessions : JoinCheck(s, FALSE)
    \/ \E s \in MemberSessions : JoinInsert(s, FALSE)
    \/ \E s \in MemberSessions : ClickLeave(s, FALSE)
    \/ \E s \in MemberSessions : LeaveDelete(s, FALSE)
    \/ \E s \in AdminSessions, target \in UserIds, new_role \in {"student", "admin"} :
          AdminUpdateRole(s, target, new_role, FALSE, FALSE)
    \/ \E s \in AdminSessions, o \in OrgIds : AdminAddOrganization(s, o, TRUE, FALSE, FALSE)
    \/ \E s \in AdminSessions, o \in OrgIds : AdminUpdateOrganization(s, o, TRUE, FALSE, FALSE)
    \/ \E s \in AdminSessions, o \in OrgIds : AdminRequestDelete(s, o, FALSE, FALSE)
    \/ \E s \in AdminSessions, o \in OrgIds : AdminConfirmDelete(s, o, FALSE, FALSE)

SpecHub == InitHub /\ [][NextHub]_vars

----------------------------------------------------------------------------
(* database_manager.py: get_memberships_for_org, the roster of an            *)
(* organization.  Here each (user, organization) pair has no row or one row, *)
(* kept with its role.                                                       *)

MembershipRoles == {"leader", "member"}

\* The place of a role in the order of strings: 'leader' < 'member'.
RoleTextRank(role) == CASE role = "leader" -> 1 [] role = "member" -> 2

\* The direction of order("role", desc=True): a larger string comes first.
DescendingKey(rank) == 0 - rank

\* select("role, users!inner(...)").eq("organization_id", org_id)
\* .order("role", desc=True), then the flattening loop; [] when the request raises.
get_memberships_for_org(mem, org_id, raises) ==
    IF raises
    THEN {<< >>}
    ELSE LET selected == {u \in UserIds : Truthy(mem[<<u, org_id>>]) /\ users[u] # NoRow}
             role == [u \in selected |-> DescendingKey(RoleTextRank(mem[<<u, org_id>>][1].role))]
         IN  {[k \in 1..Cardinality(selected) |->
                  [membership_role |-> mem[<<q[k], org_id>>][1].role, user_id |-> q[k]]] :
              q \in OrderedBy(selected, role)}

RosterCall(org_id, raised, rows) ==
    [op |-> "get_memberships_for_org", organization_id |-> org_id, raised |-> raised,
     rows |-> rows]

\* get_group_data: the roster read of the Detail view.
ListRoster(org_id, raises) ==
    /\ \E rows \in get_memberships_for_org(memberships, org_id, raises) :
          last' = RosterCall(org_id, raises, rows)
    /\ UNCHANGED <<cache, credentials, users, memberships, organizations, events, session, pc, shown,
                   prev, out>>

InitRoster ==
    /\ users = InitUsers
    /\ credentials = {u \in UserIds : users[u] # NoRow}
    /\ cache = EmptyCache
    /\ organizations = InitOrganizations
    /\ events = [i \in EventIds |-> None]
    /\ memberships \in [Pairs -> {None} \cup {<<[role |-> r]>> : r \in MembershipRoles}]
    /\ session = [s \in Sessions |-> LoggedOut]
    /\ pc = [s \in Sessions |-> Idle]
    /\ shown = [s \in Sessions |-> "none"]
    /\ out = NoOut
    /\ prev = NoCall
    /\ last = NoCall

NextRoster == \E org_id \in OrgIds, raises \in BOOLEAN : ListRoster(org_id, raises)

SpecRoster == InitRoster /\ [][NextRoster]_vars

----------------------------------------------------------------------------
(* database_manager.py: add_event called with any organization_id, next to   *)
(* the event form and the Admin view's organization management               *)

\* The record of an add_event call made with event_data `row`: what it
\* returned, whether the row's organization existed, the events before it.
AddEventCall(row, ret, raised, before) ==
    [op |-> "add_event", include_private |-> FALSE, ret |-> ret, raised |-> raised,
     rows |-> << >>, organization_id |-> row.organization_id,
     referenced |-> Truthy(organizations[row.organization_id]), before |-> before]

\* db_manager.add_event(event_data) with an organization_id of any value.
AddEvent(start_time, is_public, o, raises) ==
    /\ \E i \in EventIds : ~Truthy(events[i])
    /\ LET row == EventRow(start_time, is_public, o, None)
           r == add_event(events, row, raises)
       IN  /\ events' = r.events
           /\ last' = AddEventCall(row, r.ret, raises, events)
    /\ UNCHANGED <<cache, credentials, users, memberships, organizations, session, pc, shown, prev, out>>

InitEventStore ==
    /\ users = InitUsers
    /\ credentials = {u \in UserIds : users[u] # NoRow}
    /\ cache = EmptyCache
    /\ organizations = [o \in OrgIds |-> IF o = "o1" THEN InitOrganizations[o] ELSE None]
    /\ memberships = [p \in Pairs |-> 0]
    /\ events = [i \in EventIds |-> None]
    /\ session = [s \in Sessions |-> LoggedOut]
    /\ pc = [s \in Sessions |-> Idle]
    /\ shown = [s \in Sessions |-> "none"]
    /\ out = SidebarOut("none")
    /\ prev = EventCall("none", FALSE, FALSE, FALSE, << >>)
    /\ last = EventCall("none", FALSE, FALSE, FALSE, << >>)

NextEventStore ==
    \/ \E is_public \in BOOLEAN, o \in OrgIds, raises \in BOOLEAN :
          AddEvent(1, is_public, o, raises)
    \/ \E is_public \in BOOLEAN, o \in OrgIds, raises \in BOOLEAN :
          SubmitEvent(1, is_public, o, 0, raises)
    \/ \E s \in AdminSessions : AdminLogin(s, "u1", TRUE, FALSE)
    \/ \E s \in AdminSessions, o \in OrgIds, raisesInsert \in BOOLEAN :
          AdminAddOrganization(s, o, TRUE, FALSE, raisesInsert)
    \/ \E s \in AdminSessions, o \in OrgIds : AdminRequestDelete(s, o, FALSE, FALSE)
    \/ \E s \in AdminSessions, o \in OrgIds : AdminConfirmDelete(s, o, FALSE, FALSE)

SpecEventStore == InitEventStore /\ [][NextEventStore]_vars

----------------------------------------------------------------------------
(* event_form.py: the form submitted with any number in "Max Attendees" *)

NextEventForm ==
    \E o \in OrgIds, entered \in AttendeeInputs, raises \in BOOLEAN :
        SubmitEvent(1, TRUE, o, entered, raises)

SpecEventForm == InitEvents /\ [][NextEventForm]_vars

----------------------------------------------------------------------------
(* calendar_page.py: show_calendar with its cached get_calendar_events and   *)
(* the inline event form                                                     *)

CalendarOut(s, kind, rows) ==
    [view |-> "calendar", kind |-> kind, sid |-> s, role |-> get_user_role(s), rows |-> rows]

\* The outcome of "Submit Event" in the Calendar view: the id the new row got
\* when it was stored.
CreateOut(s, kind, id, is_public) ==
    [view |-> "calendar", kind |-> kind, sid |-> s, role |-> get_user_role(s), rows |-> << >>,
     id |-> id, is_public |-> is_public]

\* A call of get_calendar_events that is running in session s with `value`
\* read from the store.
CalendarFetch(value) ==
    [at |-> "calendar_fetch", user_id |-> NoUser, org_id |-> NoOrg, value |-> value]

\* get_calendar_events: db_manager.get_all_events(include_private=False)
include_private(s) == FALSE

\* The "Master Calendar" button of the sidebar.
GoCalendar(s) ==
    /\ pc[s].at = "idle"
    /\ is_logged_in(s)
    /\ session[s].current_page # "calendar"
    /\ session' = [session EXCEPT ![s].current_page = "calendar"]
    /\ shown' = [shown EXCEPT ![s] = "none"]
    /\ UNCHANGED <<cache, credentials, users, memberships, organizations, events, pc, prev, last, out>>

\* A run of show_calendar with no button pressed.  With the form open, the
\* form is drawn and the list is not.  Else get_calendar_events(): an entry of
\* the cache is shown as it is; with no entry the store is read, unless a call
\* known to the cache is already computing the entry (this one then waits).
ShowCalendar(s, raises) ==
    /\ pc[s].at \in {"idle", "rerun"}
    /\ session[s].current_page = "calendar"
    /\ IF session[s].show_event_form
       THEN /\ out' = CalendarOut(s, "form", << >>)
            /\ pc' = [pc EXCEPT ![s] = Idle]
            /\ UNCHANGED cache
       ELSE IF Truthy(cache.calendar)
       THEN /\ out' = CalendarOut(s, IF cache.calendar[1] = << >> THEN "empty" ELSE "list",
                                  cache.calendar[1])
            /\ pc' = [pc EXCEPT ![s] = Idle]
            /\ UNCHANGED cache
       ELSE /\ \A t \in cache.computing : pc[t].at # "calendar_fetch"
            /\ \E rows \in get_all_events(events, include_private(s), raises) :
                  pc' = [pc EXCEPT ![s] = CalendarFetch(rows)]
            /\ cache' = [cache EXCEPT !.computing = @ \cup {s}]
            /\ UNCHANGED out
    /\ UNCHANGED <<credentials, users, memberships, organizations, events, session, shown, prev, last>>

\* The running get_calendar_events call returns: its value is written to the
\* cache and the list is drawn.  When the cache was cleared while the call
\* ran, the write may reach the entries later calls read (lands) or not.
CalendarFetched(s, lands) ==
    /\ pc[s].at = "calendar_fetch"
    /\ s \in cache.computing => lands
    /\ cache' = IF lands
                THEN [cache EXCEPT !.calendar = <<pc[s].value>>, !.computing = @ \ {s}]
                ELSE cache
    /\ out' = CalendarOut(s, IF pc[s].value = << >> THEN "empty" ELSE "list", pc[s].value)
    /\ pc' = [pc EXCEPT ![s] = Idle]
    /\ UNCHANGED <<credentials, users, memberships, organizations, events, session, shown, prev, last>>

\* "Add New Event": show_event_form = True and st.rerun().
OpenEventForm(s) ==
    /\ pc[s].at = "idle"
    /\ session[s].current_page = "calendar"
    /\ ~session[s].show_event_form
    /\ session' = [session EXCEPT ![s].show_event_form = TRUE]
    /\ pc' = [pc EXCEPT ![s] = [Idle EXCEPT !.at = "rerun"]]
    /\ UNCHANGED <<cache, credentials, users, memberships, organizations, events, shown, prev, last, out>>

\* "Back to Calendar": show_event_form = False and st.rerun().
BackToCalendar(s) ==
    /\ pc[s].at = "idle"
    /\ session[s].current_page = "calendar"
    /\ session[s].show_event_form
    /\ session' = [session EXCEPT ![s].show_event_form = FALSE]
    /\ pc' = [pc EXCEPT ![s] = [Idle EXCEPT !.at = "rerun"]]
    /\ UNCHANGED <<cache, credentials, users, memberships, organizations, events, shown, prev, last, out>>

\* "Submit Event" in the form the Calendar view shows; valid: the required
\* fields are filled in.  On True the cache is cleared, the form is closed and
\* the script is run again.
CalendarSubmitEvent(s, valid, start_time, is_public, o, entered, raises) ==
    /\ pc[s].at = "idle"
    /\ session[s].current_page = "calendar"
    /\ session[s].show_event_form
    /\ o \in HostOrganizations(FALSE)
    /\ \E i \in EventIds : ~Truthy(events[i])
    /\ IF ~valid
       THEN /\ out' = CreateOut(s, "invalid", 0, is_public)
            /\ UNCHANGED <<events, cache, session, pc, last>>
       ELSE LET r == add_event(events, EventRow(start_time, is_public, o, max_attendees(entered)),
                               raises)
            IN  /\ events' = r.events
                /\ last' = FormCall(r.ret, raises, entered)
                /\ out' = CreateOut(s, IF r.ret THEN "created" ELSE "create_failed",
                                    NextEventId(events), is_public)
                /\ cache' = IF r.ret THEN ClearCache(cache) ELSE cache
                /\ session' = IF r.ret THEN [session EXCEPT ![s].show_event_form = FALSE]
                                       ELSE session
                /\ pc' = [pc EXCEPT ![s] = IF r.ret THEN [Idle EXCEPT !.at = "rerun"] ELSE Idle]
    /\ UNCHANGED <<credentials, users, memberships, organizations, shown, prev>>

InitCalendar ==
    /\ InitAdminRest
    /\ users = InitUsers
    /\ credentials = {u \in UserIds : users[u] # NoRow}
    /\ cache = EmptyCache
    /\ organizations = InitOrganizations

\* The account each browser session logs in with.
OwnAccount == [s \in Sessions |-> IF s = "s1" THEN "u1" ELSE "u2"]

\* The store answers every read; each browser session has its own account.
NextCalendar ==
    \/ \E s \in Sessions : Login(s, OwnAccount[s], TRUE, FALSE)
    \/ \E s \in Sessions : Logout(s, FALSE)
    \/ \E s \in Sessions : GoCalendar(s)
    \/ \E s \in Sessions : ShowCalendar(s, FALSE)
    \/ \E s \in Sessions, lands \in BOOLEAN : CalendarFetched(s, lands)
    \/ \E s \in Sessions : OpenEventForm(s)
    \/ \E s \in Sessions : BackToCalendar(s)
    \/ \E s \in Sessions, valid \in BOOLEAN, start_time \in Times, is_public \in BOOLEAN,
          raises \in BOOLEAN :
          CalendarSubmitEvent(s, valid, start_time, is_public, "o1", 0, raises)

SpecCalendar == InitCalendar /\ [][NextCalendar]_vars

----------------------------------------------------------------------------
(* detail_page.py: show_group_detail with its cached get_group_data, reached *)
(* from the Directory and from the Profile page                              *)

\* select("*").eq("id", org_id).single(): the row, None when the request
\* raises or no row has the id.
get_organization_by_id(orgs, org_id, raises) == IF raises THEN None ELSE orgs[org_id]

\* The roster rows of an organization, as the number of rows of each user
\* (users!inner: only users with a row); their order is left out here.  No
\* rows when the request raises.
RosterRows(m, org_id, raises) ==
    [u \in UserIds |-> IF raises \/ users[u] = NoRow THEN 0 ELSE m[<<u, org_id>>]]

\* get_group_data(org_id): the organization read, then the roster read.
get_group_data(org_id, raisesOrg, raisesRoster) ==
    [org |-> get_organization_by_id(organizations, org_id, raisesOrg),
     roster |-> RosterRows(memberships, org_id, raisesRoster)]

\* select("role, organizations!inner(...)").eq("user_id", user_id), flattened:
\* the org_id values of the rows; none when the request raises.
get_orgs_for_user(m, user_id, raises) ==
    IF raises THEN {} ELSE {o \in OrgIds : m[<<user_id, o>>] > 0 /\ Truthy(organizations[o])}

DetailOut(s, kind, o, value, pressed) ==
    [view |-> "detail", kind |-> kind, sid |-> s, org |-> o, org_data |-> value.org,
     roster |-> value.roster, pressed |-> pressed]

NoGroupData == [org |-> None, roster |-> [u \in UserIds |-> 0]]

\* A call of get_group_data(org_id) that is running in session s, in a run of
\* the script with the button `pressed`, with `value` read from the store.
GroupFetch(org_id, value, pressed) ==
    [at |-> "group_fetch", user_id |-> NoUser, org_id |-> org_id, value |-> value,
     pressed |-> pressed]

\* The buttons of the Detail view a run of the script can come from.
DetailButtons == {"none", "join", "leave", "back"}

\* The button is on the page the browser shows.
ButtonShown(s, pressed) ==
    CASE pressed = "none" -> TRUE
      [] pressed = "back" -> pc[s].at = "idle" /\ shown[s] # "none"
      [] OTHER -> pc[s].at = "idle" /\ shown[s] = pressed

\* show_group_detail from `org, roster_raw = get_group_data(org_id)` on: with
\* no org, back to the directory; else header, membership section (the status
\* read; the pressed Join or Leave button is served when the section shows
\* it), roster, and the "Back to Directory" button.
DetailBody(s, value, pressed, raisesStatus) ==
    LET o == session[s].selected_org_id
        control == MembershipControl(s, raisesStatus)
    IN  IF ~Truthy(value.org)
        THEN /\ out' = DetailOut(s, "not_found", o, value, pressed)
             /\ session' = [session EXCEPT ![s].current_page = "directory"]
             /\ pc' = [pc EXCEPT ![s] = [Idle EXCEPT !.at = "rerun"]]
             /\ shown' = [shown EXCEPT ![s] = "none"]
        ELSE /\ out' = DetailOut(s, "content", o, value, pressed)
             /\ IF pressed = "join" /\ control = "join"
                THEN /\ pc' = [pc EXCEPT ![s] = [at |-> "join_check", user_id |-> DetailUserId(s),
                                                 org_id |-> o]]
                     /\ UNCHANGED <<session, shown>>
                ELSE IF pressed = "leave" /\ control = "leave"
                THEN /\ pc' = [pc EXCEPT ![s] = [at |-> "leave_delete",
                                                 user_id |-> DetailUserId(s), org_id |-> o]]
                     /\ UNCHANGED <<session, shown>>
                ELSE IF pressed = "back"
                THEN /\ session' = [session EXCEPT ![s].current_page = "directory",
                                                   ![s].selected_org_id = NoOrg]
                     /\ pc' = [pc EXCEPT ![s] = [Idle EXCEPT !.at = "rerun"]]
                     /\ shown' = [shown EXCEPT ![s] = "none"]
                ELSE /\ shown' = [shown EXCEPT ![s] = control]
                     /\ pc' = [pc EXCEPT ![s] = Idle]
                     /\ UNCHANGED session

\* A run of show_group_detail, with or without a button pressed, up to the
\* return of get_group_data: with no selected_org_id, back to the directory;
\* with an entry in the cache, the rest of the script on that entry; with no
\* entry the store is read (the organizations collection does not change
\* here, so the two reads are one step), unless a call known to the cache is
\* already computing the entry.
ShowGroupDetail(s, pressed, raisesOrg, raisesStatus) ==
    /\ pc[s].at \in {"idle", "rerun"}
    /\ session[s].current_page = "detail"
    /\ ButtonShown(s, pressed)
    /\ LET o == session[s].selected_org_id
       IN  IF o = NoOrg
           THEN /\ out' = DetailOut(s, "no_selection", o, NoGroupData, pressed)
                /\ session' = [session EXCEPT ![s].current_page = "directory"]
                /\ pc' = [pc EXCEPT ![s] = [Idle EXCEPT !.at = "rerun"]]
                /\ shown' = [shown EXCEPT ![s] = "none"]
                /\ UNCHANGED cache
           ELSE IF Truthy(cache.group[o])
           THEN /\ DetailBody(s, cache.group[o][1], pressed, raisesStatus)
                /\ UNCHANGED cache
           ELSE /\ \A t \in cache.computing :
                      ~(pc[t].at = "group_fetch" /\ pc[t].org_id = o)
                /\ pc' = [pc EXCEPT ![s] =
                             GroupFetch(o, get_group_data(o, raisesOrg, FALSE), pressed)]
                /\ cache' = [cache EXCEPT !.computing = @ \cup {s}]
                /\ UNCHANGED <<session, shown, out>>
    /\ UNCHANGED <<credentials, users, memberships, organizations, events, prev, last>>

\* The running get_group_data call returns: its value is written to the cache
\* and the rest of the script runs on it.  When the cache was cleared while
\* the call ran, the write may reach the entries later calls read (lands) or
\* not.
GroupFetched(s, lands, raisesStatus) ==
    /\ pc[s].at = "group_fetch"
    /\ s \in cache.computing => lands
    /\ cache' = IF lands
                THEN [cache EXCEPT !.group[pc[s].org_id] = <<pc[s].value>>,
                                   !.computing = @ \ {s}]
                ELSE cache
    /\ DetailBody(s, pc[s].value, pc[s].pressed, raisesStatus)
    /\ UNCHANGED <<credentials, users, memberships, organizations, events, prev, last>>

\* app.py after st.rerun() with current_page = "directory": show_directory.
RerunDirectory(s) ==
    /\ pc[s].at = "rerun"
    /\ session[s].current_page = "directory"
    /\ pc' = [pc EXCEPT ![s] = Idle]
    /\ UNCHANGED <<cache, credentials, users, memberships, organizations, events, session, shown,
                   prev, last, out>>

\* The "My Profile" button of the sidebar.
GoProfile(s) ==
    /\ pc[s].at = "idle"
    /\ is_logged_in(s)
    /\ session[s].current_page # "profile"
    /\ session' = [session EXCEPT ![s].current_page = "profile"]
    /\ shown' = [shown EXCEPT ![s] = "none"]
    /\ UNCHANGED <<cache, credentials, users, memberships, organizations, events, pc, prev, last, out>>

\* profile_page.py: "View <organization> Page" in the membership list.
ProfileSelectOrg(s, o, raises) ==
    /\ pc[s].at = "idle"
    /\ session[s].current_page = "profile"
    /\ Truthy(get_current_user(s))
    /\ o \in get_orgs_for_user(memberships, get_current_user(s)[1].id, raises)
    /\ session' = [session EXCEPT ![s].current_page = "detail", ![s].selected_org_id = o]
    /\ pc' = [pc EXCEPT ![s] = [Idle EXCEPT !.at = "rerun"]]
    /\ shown' = [shown EXCEPT ![s] = "none"]
    /\ UNCHANGED <<cache, credentials, users, memberships, organizations, events, prev, last, out>>

InitGroupDetail ==
    /\ InitAdminRest
    /\ users = InitUsers
    /\ credentials = {u \in UserIds : users[u] # NoRow}
    /\ cache = EmptyCache
    /\ organizations = [o \in OrgIds |-> IF o = "o1" THEN InitOrganizations[o] ELSE None]

\* Each browser session has its own account; raisesOrg says whether the
\* organization read of get_group_data raises, every other request is answered.
NextGroupDetail ==
    \/ \E s \in Sessions : Login(s, OwnAccount[s], TRUE, FALSE)
    \/ \E s \in Sessions : Logout(s, FALSE)
    \/ \E s \in Sessions : GoDirectory(s)
    \/ \E s \in Sessions : RerunDirectory(s)
    \/ \E s \in Sessions, o \in OrgIds : SelectOrg(s, o)
    \/ \E s \in Sessions : GoProfile(s)
    \/ \E s \in Sessions, o \in OrgIds : ProfileSelectOrg(s, o, FALSE)
    \/ \E s \in Sessions, pressed \in DetailButtons, raisesOrg \in BOOLEAN :
          ShowGroupDetail(s, pressed, raisesOrg, FALSE)
    \/ \E s \in Sessions, lands \in BOOLEAN : GroupFetched(s, lands, FALSE)
    \/ \E s \in Sessions : JoinCheck(s, FALSE)
    \/ \E s \in Sessions : JoinInsert(s, FALSE)
    \/ \E s \in Sessions : LeaveDelete(s, FALSE)

SpecGroupDetail == InitGroupDetail /\ [][NextGroupDetail]_vars

----------------------------------------------------------------------------
(* app.py: the sidebar and the routing of the main content area, with the    *)
(* views the routes lead to                                                  *)

\* The branch of the main content area taken for a value of current_page.
Route(page) ==
    IF page \in {"home", "directory", "detail", "calendar", "signup", "profile"}
    THEN page ELSE "not_found"

\* What a run of the script draws in the main content area for session s.
MainOut(s, kind) ==
    [view |-> "main", kind |-> kind, sid |-> s, page |-> Route(session[s].current_page),
     logged_in |-> is_logged_in(s)]

\* The "Home" button is offered to a logged-in session.
GoHome(s) ==
    /\ pc[s].at = "idle"
    /\ is_logged_in(s)
    /\ session[s].current_page # "home"
    /\ session' = [session EXCEPT ![s].current_page = "home"]
    /\ shown' = [shown EXCEPT ![s] = "none"]
    /\ UNCHANGED <<cache, credentials, users, memberships, organizations, events, pc, prev, last, out>>

\* The "Create Account" button is offered to a session that is not logged in.
CreateAccount(s) ==
    /\ pc[s].at = "idle"
    /\ ~is_logged_in(s)
    /\ session[s].current_page # "signup"
    /\ session' = [session EXCEPT ![s].current_page = "signup"]
    /\ shown' = [shown EXCEPT ![s] = "none"]
    /\ UNCHANGED <<cache, credentials, users, memberships, organizations, events, pc, prev, last, out>>

\* The sign-up form of the "signup" route; valid: the required fields are
\* filled in and the two passwords are equal.  On True the page is "home".
SignUpForm(s, u, valid, accepted, inserted) ==
    /\ pc[s].at = "idle"
    /\ session[s].current_page = "signup"
    /\ users[u] = NoRow
    /\ IF ~valid
       THEN /\ out' = MainOut(s, "signup_invalid")
            /\ UNCHANGED <<users, credentials, session>>
       ELSE LET r == sign_up(s, u, accepted, inserted)
            IN  /\ users' = r.users
                /\ credentials' = r.credentials
                /\ session' = [session EXCEPT ![s] =
                                  IF r.ret THEN [r.session EXCEPT !.current_page = "home"]
                                           ELSE r.session]
                /\ out' = MainOut(s, IF r.ret THEN "signed_up" ELSE "signup_failed")
    /\ UNCHANGED <<cache, memberships, organizations, events, pc, shown, prev, last>>

\* A run of the script that draws the home page, the sign-up form, the
\* Directory, the Profile page or "Page not found." with no button pressed.
ShowPage(s) ==
    /\ pc[s].at \in {"idle", "rerun"}
    /\ Route(session[s].current_page) \notin {"detail", "calendar"}
    /\ out' = MainOut(s, "rendered")
    /\ pc' = [pc EXCEPT ![s] = Idle]
    /\ UNCHANGED <<cache, credentials, users, memberships, organizations, events, session, shown,
                   prev, last>>

\* One account exists with its row; u2 has neither account nor row.  One
\* organization exists.
InitNav ==
    /\ InitAdminRest
    /\ users = [u \in UserIds |-> IF u = "u1" THEN "admin" ELSE NoRow]
    /\ credentials = {u \in UserIds : users[u] # NoRow}
    /\ cache = EmptyCache
    /\ organizations = [o \in OrgIds |-> IF o = "o1" THEN InitOrganizations[o] ELSE None]

\* Each browser session has its own account; the provider may fail a login,
\* a sign-up or a logout, every other request is answered.  Both sessions use
\* the whole sidebar; the Calendar's buttons are pressed in one session and
\* those of the Directory, the Profile page and the Detail view in the other.
\* The events created are private ones.
NextNav ==
    \/ \E s \in Sessions, raises \in BOOLEAN : Login(s, OwnAccount[s], TRUE, raises)
    \/ \E s \in Sessions, raises \in BOOLEAN : Logout(s, raises)
    \/ \E s \in Sessions : CreateAccount(s)
    \/ \E s \in Sessions, valid \in BOOLEAN, accepted \in BOOLEAN :
          SignUpForm(s, OwnAccount[s], valid, accepted, TRUE)
    \/ \E s \in Sessions : GoHome(s)
    \/ \E s \in Sessions : GoDirectory(s)
    \/ \E s \in Sessions : GoCalendar(s)
    \/ \E s \in Sessions : GoProfile(s)
    \/ \E s \in Sessions : ShowPage(s)
    \/ \E s \in MemberSessions, o \in OrgIds : SelectOrg(s, o)
    \/ \E s \in MemberSessions, o \in OrgIds : ProfileSelectOrg(s, o, FALSE)
    \/ \E s \in Sessions, pressed \in DetailButtons :
          ShowGroupDetail(s, pressed, FALSE, FALSE)
    \/ \E s \in Sessions : GroupFetched(s, TRUE, FALSE)
    \/ \E s \in Sessions : JoinCheck(s, FALSE)
    \/ \E s \in Sessions : JoinInsert(s, FALSE)
    \/ \E s \in Sessions : LeaveDelete(s, FALSE)
    \/ \E s \in Sessions : ShowCalendar(s, FALSE)
    \/ \E s \in Sessions : CalendarFetched(s, TRUE)
    \/ \E s \in AdminSessions : OpenEventForm(s)
    \/ \E s \in AdminSessions : BackToCalendar(s)
    \/ \E s \in AdminSessions, raises \in BOOLEAN :
          CalendarSubmitEvent(s, TRUE, 1, FALSE, "o1", 0, raises)

SpecNav == InitNav /\ [][NextNav]_vars

----------------------------------------------------------------------------
(* Membership claims *)

\* C1: in every reachable state the memberships collection holds at most one
\* row per (user_id, organization_id) pair, also when two sessions of the same
\* user interleave the existence check and the insert of join_organization.
C1_AtMostOneMembershipPerPair == \A p \in Pairs : memberships[p] <= 1

\* C2: for a pair with no membership, after a first join_organization that
\* returned True, a second join_organization for the same pair called right
\* after it returns False, performs no insert, and the pair has exactly one row.
C2_SecondJoinIsNoOp ==
    (/\ prev.op = "join" /\ prev.before = 0 /\ prev.ret
     /\ last.op = "join" /\ SamePair(prev, last))
        => (/\ ~last.ret
            /\ ~last.inserted
            /\ memberships[<<last.user_id, last.organization_id>>] = 1)

C3_LeaveNonMember ==
    (last'.op = "leave" /\ last'.before = 0)
        => (~last'.ret /\ memberships' = memberships)

C3_LeaveMember(storeAnswers) ==
    (last'.op = "leave" /\ last'.before > 0 /\ storeAnswers)
        => (last'.ret /\ memberships'[<<last'.user_id, last'.organization_id>>] = 0)

C3_JoinAfterLeave(storeAnswers) ==
    (/\ last.op = "leave" /\ last.before > 0 /\ last.ret
     /\ last'.op = "join" /\ SamePair(last, last') /\ storeAnswers)
        => (last'.ret /\ memberships'[<<last'.user_id, last'.organization_id>>] = 1)

\* C3 as stated: leave_organization of a non-member returns False and changes
\* nothing; of a member it returns True and leaves no row of the pair; a
\* join_organization right after that leave returns True and leaves one row.
C3_LeaveThenJoin_AsStated ==
    [][C3_LeaveNonMember /\ C3_LeaveMember(TRUE) /\ C3_JoinAfterLeave(TRUE)]_vars

\* C3 (amended): the same, for the calls in which no store request raises; a
\* leave or join whose request raises returns False and changes nothing.
C3_LeaveThenJoin ==
    [][/\ C3_LeaveNonMember
       /\ C3_LeaveMember(~last'.raised)
       /\ C3_JoinAfterLeave(~last'.raised)
       /\ (last'.raised /\ ~last'.inserted) => (~last'.ret /\ memberships' = memberships)]_vars

C3_Witness ==
    /\ prev.op = "leave" /\ prev.before > 0 /\ prev.ret
    /\ last.op = "join" /\ SamePair(prev, last) /\ last.ret /\ ~last.raised
    /\ memberships[<<last.user_id, last.organization_id>>] = 1

InHandler(s) == pc[s].at \in {"join_check", "join_insert", "leave_delete"}

C7_CallCarriesOwnId ==
    \A s \in Sessions :
        InHandler(s) => (/\ session[s].logged_in
                         /\ Truthy(session[s].user)
                         /\ pc[s].user_id = session[s].user[1].id)

C7_OnlyOwnRowsChange ==
    \A p \in Pairs :
        memberships'[p] # memberships[p]
            => \E s \in Sessions :
                  /\ pc[s].at \in {"join_insert", "leave_delete"}
                  /\ pc'[s] # pc[s]
                  /\ session[s].logged_in
                  /\ Truthy(session[s].user)
                  /\ session[s].user[1].id = p[1]
                  /\ pc[s].org_id = p[2]

\* C7: every join_organization and leave_organization call of the Detail view
\* is made by a logged-in session with that session's own user id, and a
\* membership row is inserted or deleted only by a session of the row's user.
C7_OwnMembershipOnly == []C7_CallCarriesOwnId /\ [][C7_OnlyOwnRowsChange]_vars

C7_Witness ==
    \E s \in Sessions :
        /\ pc[s].at = "rerun"
        /\ Truthy(session[s].user)
        /\ session[s].user[1].id = "u2"
        /\ memberships[<<"u2", session[s].selected_org_id>>] = 1

----------------------------------------------------------------------------
(* Admin view claims *)

RoleFormOutcomes == {"role_denied", "role_updated", "role_failed"}

C4_RoleChangeStep ==
    (out'.view = "admin" /\ out'.kind \in RoleFormOutcomes) =>
        /\ out'.role = "admin"
        /\ (out'.kind = "role_denied")
              <=> (out'.target = out'.actor /\ out'.new_role # "admin")
        /\ (out'.kind = "role_denied")
              => (out'.called = "none" /\ users' = users)
        /\ (out'.kind # "role_denied")
              => /\ out'.called = "update_user_role"
                 /\ (out'.ret = "True") <=> (out'.kind = "role_updated")
                 /\ (out'.ret = "True") => users'[out'.target] = out'.new_role

\* C4: in the role-change form, for acting admin A, target T and new role r,
\* the request is denied (no update_user_role call, every stored role
\* unchanged) exactly when T = A and r # 'admin'; in every other case
\* update_user_role(T, r) is called and on success T's stored role is r.
C4_SelfDemotionOnlyDenied == [][C4_RoleChangeStep]_vars

\* The three cases of the claim have all happened: here, the acting admin
\* keeps 'admin' on their own row and the update succeeds.
C4_Witness ==
    /\ out.view = "admin" /\ out.kind = "role_updated"
    /\ out.target = out.actor /\ out.new_role = "admin"
    /\ users[out.target] = "admin"

\* C5: for every session state, also one with no logged-in principal, a run
\* of show_admin_panel_page by a principal whose role is not exactly 'admin'
\* ends in the 'Access Denied' message, with no access-layer write called.
C5_NonAdminIsDenied ==
    (out.view = "admin" /\ out.role # "admin")
        => (out.kind = "denied" /\ out.called = "none")

\* C6: every users row made by sign-up has role 'student', and afterwards a
\* stored role changes only by update_user_role issued by a principal whose
\* stored role is 'admin' at the moment of the change.
C6_RoleChangedOnlyByStoredAdmin ==
    [][\A u \in UserIds :
          /\ (users[u] = NoRow /\ users'[u] # NoRow) => users'[u] = "student"
          /\ (users[u] # NoRow /\ users'[u] # users[u])
                => /\ out'.called = "update_user_role"
                   /\ out'.actor # NoUser
                   /\ users[out'.actor] = "admin"]_vars

\* C10: every access-layer operation a view invokes returns a typed value
\* (boolean, absent, sequence) and lets no exception reach the view.
C10_NoExceptionReachesView ==
    (out.view = "admin" /\ out.called # "none") => out.ret \in {"True", "False"}

----------------------------------------------------------------------------
(* Event listing claims *)

ListedIds(rows) == {rows[k].id : k \in 1..Len(rows)}

C8_Listing(storeAnswers) ==
    (last.op = "get_all_events" /\ storeAnswers) =>
        /\ ListedIds(last.rows) =
              {i \in EventIds : Truthy(events[i])
                                 /\ (last.include_private \/ events[i][1].is_public = TRUE)}
        /\ Cardinality(ListedIds(last.rows)) = Len(last.rows)
        /\ \A k \in 1..Len(last.rows) :
              /\ last.rows[k].start_time = events[last.rows[k].id][1].start_time
              /\ last.rows[k].is_public = events[last.rows[k].id][1].is_public
        /\ \A k \in 1..(Len(last.rows) - 1) :
              last.rows[k].start_time <= last.rows[k + 1].start_time

\* C8 as stated: for every contents of the events collection,
\* get_all_events(include_private=False) returns exactly the is_public rows,
\* each once, in ascending start_time order, and get_all_events(True) every row.
C8_ListsExactlyVisible_AsStated == C8_Listing(TRUE)

\* C8 (amended): the same whenever the store answers the query; when the
\* request raises the call returns the empty sequence.
C8_ListsExactlyVisible ==
    /\ C8_Listing(~last.raised)
    /\ (last.op = "get_all_events" /\ last.raised) => last.rows = << >>

C8_Witness ==
    /\ last.op = "get_all_events" /\ ~last.include_private /\ ~last.raised
    /\ Len(last.rows) = 2
    /\ \E i \in EventIds : Truthy(events[i]) /\ ~events[i][1].is_public

----------------------------------------------------------------------------
(* Directory claims *)

SameLetter(x, y) == x = y \/ {x, y} = {"A", "a"}

ContainsIgnoringCase(q, name) ==
    \E k \in 0..Len(name) :
        /\ k + Len(q) <= Len(name)
        /\ \A i \in 1..Len(q) : SameLetter(q[i], name[k + i])

Wanted(o) ==
    /\ ContainsIgnoringCase(out.text, organizations[o][1].name)
    /\ (out.selected_category = "All" \/ organizations[o][1].category = out.selected_category)

\* C9: for every organization list, search string q and selected category c,
\* the Directory view displays exactly the organizations whose name contains
\* q as a case-insensitive substring and whose category is c (or c is 'All'),
\* in the order of the input list.
C9_DirectoryFilter ==
    out.view = "directory" =>
        /\ {out.displayed[k] : k \in 1..Len(out.displayed)} =
              {out.org_data[k] : k \in {j \in 1..Len(out.org_data) : Wanted(out.org_data[j])}}
        /\ \A i, j \in 1..Len(out.displayed) :
              i < j => \E a, b \in 1..Len(out.org_data) :
                          /\ a < b
                          /\ out.org_data[a] = out.displayed[i]
                          /\ out.org_data[b] = out.displayed[j]

\* Two organizations whose names both contain the search text when case is
\* ignored, the text typed with a capital, and only one in the chosen category.
C9_Witness ==
    /\ out.view = "directory"
    /\ Len(out.org_data) = 2
    /\ \E k \in 1..Len(out.text) : out.text[k] = "A"
    /\ \A k \in 1..2 : ContainsIgnoringCase(out.text, organizations[out.org_data[k]][1].name)
    /\ \E k \in 1..2 : organizations[out.org_data[k]][1].name # out.text
    /\ out.selected_category = "Academic"
    /\ Len(out.displayed) = 1

----------------------------------------------------------------------------
(* Role value claims *)

RoleViews == {"admin", "detail", "profile"}

\* C11: for every stored role value, also a string outside the five roles,
\* every view that reads a role completes without raising for a logged-in
\* principal, and a principal whose role is outside the five roles gets
\* neither the Admin view nor the enabled edit control.
C11_UnknownRoleNoCrashNoPrivilege ==
    (out.view \in RoleViews /\ out.actor # NoUser) =>
        /\ out.kind # "exception"
        /\ out.role \notin possible_roles => (~out.admin_access /\ ~out.edit_enabled)

----------------------------------------------------------------------------
(* Stored category claims *)

----------------------------------------------------------------------------
(* Two-step delete claims *)

OrgOutcomes ==
    {"exception", "org_updated", "update_invalid", "delete_requested", "org_deleted",
     "delete_cancelled"}

C13_DeleteStep ==
    /\ \A s \in Sessions, o \in OrgIds :
          /\ (out'.view = "admin" /\ out'.called = "delete_organization"
              /\ out'.sid = s /\ out'.org = o)
                => o \in session[s].confirm_delete
          /\ (o \notin session[s].confirm_delete /\ o \in session'[s].confirm_delete)
                => (out'.view = "admin" /\ out'.kind = "delete_requested"
                    /\ out'.sid = s /\ out'.org = o)
          /\ (Truthy(organizations[o]) /\ ~Truthy(organizations'[o]))
                => (out'.view = "admin" /\ out'.called = "delete_organization" /\ out'.org = o)
    /\ (out'.view = "admin" /\ out'.kind \in OrgOutcomes /\ out'.called # "delete_organization")
          => organizations' = organizations
    /\ (out'.view = "admin"
        /\ (out'.kind \in {"delete_cancelled", "org_deleted", "update_invalid"}
            \/ out'.called = "update_organization"))
          => out'.org \notin session'[out'.sid].confirm_delete

\* C13: delete_organization(id) is called only while confirm_delete_<id> is
\* True for that id, the flag becomes True only by a 'Delete Organization'
\* request for that id, 'Cancel Delete' and 'Update Organization' reset it and
\* remove nothing, a successful confirm resets it, and no organization is
\* removed by a step that is not a confirm.
C13_TwoStepDelete == [][C13_DeleteStep]_vars

\* The confirm button pressed for an organization whose flag had been set.
C13_Witness ==
    /\ out.view = "admin"
    /\ out.called = "delete_organization"
    /\ out.org = "o1"

----------------------------------------------------------------------------
(* Detail view render claims *)

\* Session s has just run the membership section and shows a control.
RenderedControl(s) ==
    /\ shown'[s] \in {"join", "leave"}
    /\ \/ shown'[s] # shown[s]
       \/ (pc[s].at = "rerun" /\ pc'[s].at = "idle")

\* C14: on every render of the Detail view for a logged-in principal P and
\* organization o the control shown is the one the membership rows of (P, o)
\* held by the store during that render call for: 'Leave' with the member
\* status when P has a row (so on the render after P's join succeeded), 'Join'
\* with the non-member status when P has none (so after P's leave succeeded).
C14_RenderShowsCurrentStatus ==
    [][\A s \in Sessions :
          RenderedControl(s) =>
              LET rows == memberships[<<session[s].user[1].id, session[s].selected_org_id>>]
              IN  /\ shown'[s] = "leave" <=> rows >= 1
                  /\ shown'[s] = "join" <=> rows = 0]_vars

----------------------------------------------------------------------------
(* Sign-up, sign-in and sign-out claims *)

\* C15: after any sign_up call returns, True or False, the account the call
\* made exists at the identity provider if and only if a users row of the same
\* id exists; it returns True, with the session set to that row, only when
\* both were made.
C15_SignUpAllOrNothing ==
    out.kind \in {"signed_up", "signup_failed"} =>
        /\ (out.created /\ out.user_id \in credentials) <=> users[out.user_id] # NoRow
        /\ out.ok => /\ out.created
                     /\ users[out.user_id] # NoRow
                     /\ session[out.sid].user = <<Profile(out.user_id, users[out.user_id])>>
                     /\ session[out.sid].logged_in

C16_SignInStep(storeAnswers) ==
    out'.kind \in {"logged_in", "login_failed"} =>
        LET s == out'.sid
            u == out'.user_id
        IN  /\ storeAnswers =>
                  (out'.ok <=> (out'.provider_accepted /\ users[u] # NoRow))
            /\ out'.ok => /\ session'[s].user = <<Profile(u, users[u])>>
                          /\ session'[s].logged_in
            /\ ~out'.ok => /\ out'.auth_error # NoError
                           /\ session'[s].user = session[s].user
                           /\ session'[s].logged_in = session[s].logged_in

\* C16 as stated: sign_in returns True exactly when the provider accepts the
\* credentials and a users row of the authenticated id exists, the session then
\* holding that row with logged_in True; on every failure it returns False,
\* sets auth_error and leaves user and logged_in as they were.
C16_SignIn_AsStated == [][C16_SignInStep(TRUE)]_vars

\* C16 (amended): the same, with "and the store answers the profile read"
\* added to the condition for True; a read that raises is a failure path.
C16_SignIn ==
    [][/\ C16_SignInStep(out'.store_answered)
       /\ (out'.kind \in {"logged_in", "login_failed"} /\ ~out'.store_answered) => ~out'.ok]_vars

\* A sign-in that succeeded, and the session holds the row.
C16_Witness ==
    /\ out.kind = "logged_in"
    /\ out.ok
    /\ session[out.sid].logged_in
    /\ session[out.sid].user = <<Profile(out.user_id, users[out.user_id])>>

\* C17: after the Logout action completes, also when the provider's sign-out
\* call fails, the session has user = None and logged_in = False, and no row
\* of a store collection has changed.
C17_LogoutClearsSession ==
    [][out'.kind = "logout" =>
          /\ session'[out'.sid].user = None
          /\ ~session'[out'.sid].logged_in
          /\ <<users, memberships, organizations, events>>' =
                <<users, memberships, organizations, events>>]_vars

----------------------------------------------------------------------------
(* Referential integrity claims *)

\* C18: in every reachable state every membership row's user_id is the id of
\* an existing users row and its organization_id the id of an existing
\* organizations row, after any sequence of sign-up, join, leave, role change
\* and organization create, update and delete requests.
C18_MembershipsReferenceRows ==
    \A p \in Pairs :
        memberships[p] > 0 => (users[p[1]] # NoRow /\ Truthy(organizations[p[2]]))

\* The user who signed up is a member of the organization the admin created.
C18_Witness == memberships[<<"u2", "o2">>] = 1

----------------------------------------------------------------------------
(* Roster claims *)

\* C19: for every organization, get_memberships_for_org returns a flat
\* sequence in which every row with membership role 'leader' precedes every
\* row with membership role 'member'.
C19_LeadersFirst ==
    last.op = "get_memberships_for_org" =>
        \A i, j \in 1..Len(last.rows) :
            (last.rows[i].membership_role = "leader" /\ last.rows[j].membership_role = "member")
                => i < j

----------------------------------------------------------------------------
(* Event row claims *)

\* C20: every row returned by get_all_events carries top-level
\* organization_name and organization_category equal to the name and category
\* of the organization the event's organization_id refers to, and carries no
\* nested 'organizations' field.
C20_EventRowsCarryOrganization ==
    last.op = "get_all_events" =>
        \A k \in 1..Len(last.rows) :
            LET row == last.rows[k]
                org == organizations[events[row.id][1].organization_id][1]
            IN  /\ {"organization_name", "organization_category"} \subseteq row.keys
                /\ "organizations" \notin row.keys
                /\ row.organization_name = <<org.name>>
                /\ row.organization_category = <<org.category>>

\* A listing with events of two different organizations.
C20_Witness ==
    /\ last.op = "get_all_events"
    /\ \E j, k \in 1..Len(last.rows) :
          last.rows[j].organization_id # last.rows[k].organization_id
----------------------------------------------------------------------------
(* Event creation claims *)

\* C21: add_event with an organization_id that refers to no existing
\* organization returns False and leaves the events collection as it was;
\* and in every reachable state every event row refers to an existing
\* organization.
C21_EventsReferenceOrganizations ==
    /\ (last.op = "add_event" /\ "referenced" \in DOMAIN last /\ ~last.referenced)
          => (~last.ret /\ events = last.before)
    /\ \A i \in EventIds :
          Truthy(events[i]) => Truthy(organizations[events[i][1].organization_id])

\* A call with the id of no organization, made with the store answering and
\* an event of an existing organization already stored.
C21_Witness ==
    /\ last.op = "add_event" /\ "referenced" \in DOMAIN last
    /\ ~last.referenced /\ ~last.raised
    /\ \E i \in EventIds : Truthy(events[i])

\* The id of the event stored last.
LastStored == CHOOSE i \in EventIds : Truthy(events[i]) /\ \A j \in EventIds : Truthy(events[j]) => j <= i

\* C22: every event inserted through the event-creation form has
\* max_attendees absent (None) or a whole number of at least 1; an entered 0
\* is stored as absent, never as 0, and an entered n >= 1 is stored as n.
C22_MaxAttendeesAbsentOrPositive ==
    /\ \A i \in EventIds :
          Truthy(events[i]) =>
              \/ events[i][1].max_attendees = None
              \/ events[i][1].max_attendees[1] >= 1
    /\ (last.op = "add_event" /\ "entered" \in DOMAIN last /\ last.ret) =>
          events[LastStored][1].max_attendees =
              (IF last.entered = 0 THEN None ELSE <<last.entered>>)

\* A submission with 0 entered was stored, after one with a number entered.
C22_Witness ==
    /\ last.op = "add_event" /\ "entered" \in DOMAIN last
    /\ last.ret /\ last.entered = 0
    /\ \E i \in EventIds : Truthy(events[i]) /\ events[i][1].max_attendees # None

----------------------------------------------------------------------------
(* Calendar view claims *)

\* Session s draws the event list in this step.
CalendarDrawn(s) ==
    /\ out'.view = "calendar" /\ out'.kind \in {"list", "empty"} /\ out'.sid = s
    /\ pc'[s].at = "idle"
    /\ pc[s].at = "calendar_fetch" \/ out' # out

\* C23: the Calendar view lists the public events sorted by start time, and
\* all events, public and private, when rendered for a privileged principal
\* (here: one whose role is 'admin'); an event created through the inline form
\* with is_public = true is in the list on the first render after its
\* successful creation.
C23_CalendarLists ==
    [][\A s \in Sessions :
          CalendarDrawn(s) =>
              LET rows == out'.rows
                  listed == {rows[k].id : k \in 1..Len(rows)}
              IN  /\ \A k \in 1..(Len(rows) - 1) : rows[k].start_time <= rows[k + 1].start_time
                  /\ out'.role # "admin" =>
                        listed = {i \in EventIds : Truthy(events[i]) /\ events[i][1].is_public}
                  /\ out'.role = "admin" =>
                        listed = {i \in EventIds : Truthy(events[i])}
                  /\ (out.view = "calendar" /\ out.kind = "created" /\ out.sid = s
                      /\ out.is_public)
                        => out.id \in listed]_vars

----------------------------------------------------------------------------
(* Membership status claims *)

\* C24 as stated: for every user u and organization o,
\* get_user_org_membership_status(u, o) returns a membership record if and
\* only if at least one membership row of (u, o) is stored; it returns absent
\* only when there is no such row.
C24_StatusIffRow_AsStated ==
    last.op = "status" => (last.ret <=> last.before >= 1)

\* C24 (amended): it returns a membership record if and only if the store
\* answers the request and exactly one row of (u, o) is stored; it returns
\* absent when there is no row, when there is more than one, and when the
\* request raises.
C24_StatusIffRow ==
    last.op = "status" => (last.ret <=> (last.before = 1 /\ ~last.raised))

\* A status read that returned the record of the one row a join inserted.
C24_Witness ==
    /\ prev.op = "join" /\ prev.ret
    /\ last.op = "status" /\ SamePair(prev, last) /\ last.ret

----------------------------------------------------------------------------
(* Detail view claims *)

\* Session s completes a run of show_group_detail in this step.
DetailDrawn(s) ==
    /\ out'.view = "detail" /\ out'.sid = s
    /\ out' # out \/ (pc[s].at = "group_fetch" /\ pc'[s].at # "group_fetch")

C25_SelectStep(s) ==
    (session[s].current_page # "detail" /\ session'[s].current_page = "detail") =>
        LET o == session'[s].selected_org_id
        IN  /\ o \in OrgIds
            /\ Truthy(organizations[o])
            /\ session[s].current_page \in {"directory", "profile"}
            /\ session[s].current_page = "profile" =>
                  memberships[<<session[s].user[1].id, o>>] > 0

C25_DetailStep(s) ==
    DetailDrawn(s) =>
        LET o == session[s].selected_org_id
        IN  /\ out'.kind = "content" =>
                  /\ o \in OrgIds
                  /\ out'.org = o
                  /\ Truthy(organizations[o])
                  /\ out'.org_data = organizations[o]
            /\ out'.kind # "content" =>
                  /\ session'[s].current_page = "directory"
                  /\ memberships' = memberships
                  /\ ~InHandler(s)'

\* C25: selecting an organization in the Directory or in the Profile
\* membership list sets current_page to 'detail' and selected_org_id to that
\* organization's id in the same step; the Detail view renders organization
\* content only when selected_org_id is set and refers to an existing
\* organization, and otherwise sets current_page back to 'directory' and
\* issues no join or leave.
C25_SelectThenDetail == [][\A s \in Sessions : C25_SelectStep(s) /\ C25_DetailStep(s)]_vars

\* The Detail view shows the organization the session selected.
C25_Witness ==
    /\ out.view = "detail" /\ out.kind = "content"
    /\ session[out.sid].current_page = "detail"
    /\ session[out.sid].selected_org_id = out.org
    /\ out.org_data = organizations[out.org]

\* C29: once a join or leave for organization o has succeeded and the cache
\* has been cleared, no later render of the Detail view for o, in any session,
\* shows a roster read from the store before that mutation, also when another
\* session's get_group_data(o) call is running while the mutation and the
\* clear happen.  (Here the store answers every roster read and a successful
\* join or leave clears the cache in the step that changes the rows, so a
\* roster that differs from the rows stored when it is shown was read before
\* such a mutation.)
C29_NoStaleRoster ==
    [][\A s \in Sessions :
          (DetailDrawn(s) /\ out'.kind = "content")
              => out'.roster = RosterRows(memberships, out'.org, FALSE)]_vars

----------------------------------------------------------------------------
(* Remaining-admin claims *)

----------------------------------------------------------------------------
(* Session state claims *)

\* C27: in every reachable session state, logged_in is True if and only if
\* user is not None: sign_up, sign_in and sign_out set both together or change
\* neither, on success and on every failure path.
C27_LoggedInIffUser ==
    \A s \in Sessions : session[s].logged_in <=> session[s].user # None

\* One session has just signed out while another holds a signed-in user.
C27_Witness ==
    /\ out.view = "sidebar" /\ out.kind = "logout" /\ out.ok
    /\ ~session[out.sid].logged_in
    /\ \E t \in Sessions : session[t].logged_in /\ Truthy(session[t].user)

----------------------------------------------------------------------------
(* Navigation claims *)

\* A session is running a join, a leave or an event creation.
Issuing(s) == pc[s].at \in {"join_check", "join_insert", "leave_delete"}

C28_LoggedOutPages ==
    /\ \A s \in Sessions :
          ~is_logged_in(s) => /\ session[s].current_page \in {"home", "signup"}
                              /\ ~Issuing(s)
    /\ out.view = "main" => out.logged_in \/ out.page \in {"home", "signup"}
    /\ out.view \in {"detail", "calendar"} /\ pc[out.sid].at # "idle" => is_logged_in(out.sid)

C28_StoreStep ==
    (memberships' # memberships \/ events' # events) =>
        \E s \in Sessions : /\ pc'[s] # pc[s]
                             /\ is_logged_in(s)
                             /\ session[s].current_page \in {"detail", "calendar"}

\* C28: whenever the main content area is rendered for a session that is not
\* logged in, current_page is 'home' or 'signup': no sequence of sidebar
\* actions, logins, sign-ups and logouts lets a logged-out session render the
\* Directory, Detail, Calendar or Profile view, so every join, leave and event
\* creation is issued by a logged-in session.
C28_LoggedOutSeesHomeOrSignup == []C28_LoggedOutPages /\ [][C28_StoreStep]_vars

\* A session that joined an organization has logged out and is drawn the home
\* page, while the other session is on the Calendar.
C28_Witness ==
    /\ out.view = "main" /\ out.kind = "rendered" /\ ~out.logged_in /\ out.page = "home"
    /\ \E o \in OrgIds : memberships[<<OwnAccount[out.sid], o>>] > 0
    /\ \E t \in Sessions : is_logged_in(t) /\ session[t].current_page = "calendar"

----------------------------------------------------------------------------
(* Frame claims *)

\* C30: join_organization(u, o) and leave_organization(u, o) change only
\* membership rows of the pair (u, o): every membership row of any other
\* pair, every users row (u's global role included) and every organizations
\* and events row is unchanged, on success and on failure.
C30_JoinLeaveFrame ==
    [][last'.op \in {"join", "leave"} =>
          /\ \A p \in Pairs \ {<<last'.user_id, last'.organization_id>>} :
                memberships'[p] = memberships[p]
          /\ users' = users
          /\ organizations' = organizations
          /\ events' = events]_vars

\* A leave has removed the rows of its pair while the same user's membership
\* of the other organization and another user's membership of the same
\* organization are still there.
C30_Witness ==
    /\ last.op = "leave" /\ last.ret
    /\ memberships[<<last.user_id, last.organization_id>>] = 0
    /\ \E o \in OrgIds \ {last.organization_id} : memberships[<<last.user_id, o>>] > 0
    /\ \E u \in UserIds \ {last.user_id} : memberships[<<u, last.organization_id>>] > 0
====
